---- MODULE Spec2Model ----
(***************************************************************************)
(* Admin authentication of shopify-app-remix: AuthStrategy                 *)
(* (authenticate/admin/authenticate.ts) and AuthCodeFlowStrategy           *)
(* (authenticate/admin/strategies/auth-code-flow.ts), run against a        *)
(* session storage shared by the requests.                                 *)
(*                                                                         *)
(* A request is handled by a process p.  One action is one handler of the  *)
(* source, cut at the external calls it awaits (token exchange, session    *)
(* storage, the afterAuth hook, the GraphQL probe).  A thrown Response or  *)
(* Error ends the request: res[p] holds what the caller of                 *)
(* authenticateAdmin gets, log[p] the external calls of the request in     *)
(* the order they were made.                                               *)
(*                                                                         *)
(* login (auth/login/login.ts) is modelled after the admin strategy, with  *)
(* its own specification LoginSpec: the request is drawn by LoginInit and  *)
(* the action Login applies login to it.                                   *)
(*                                                                         *)
(* Further specifications over the same variables and actions: FlowSpec    *)
(* follows the redirects of one OAuth flow, ConcSpec runs two callback     *)
(* requests at the same time, UrlSpec is the branch without a session      *)
(* token header against the stores earlier flows leave, BounceSpec draws   *)
(* the request's query as a sequence of parameters, and RestartSpec runs   *)
(* the callback against a platform client whose api.auth.begin may reject  *)
(* (in the other specifications it builds its redirect).                   *)
(***************************************************************************)
EXTENDS Integers, Sequences, FiniteSets, TLC

VARIABLES
  config,   \* AppConfig, fixed at construction
  store,    \* config.sessionStorage: session id -> Session, for the ids stored
  past,     \* the expiry dates (by access token) the clock has passed
  issued,   \* number of access tokens the platform has issued so far
  pc,       \* per process: the handler it is about to run
  req,      \* per process: the Request being handled
  loc,      \* per process: the handler's local variables
  log,      \* per process: external calls made for the request, in order
  res       \* per process: what authenticateAdmin returned or threw

vars == <<config, store, past, issued, pc, req, loc, log, res>>

----------------------------------------------------------------------------
(* Bounds of the model *)

MaxExchanges == 2   \* successful token exchanges in a run

Procs == {1, 2}

----------------------------------------------------------------------------
(* Optional values: undefined / null is the empty sequence *)

None == <<>>
Some(x) == <<x>>
\* an object (a session, a payload, a response, a session id) or undefined
IsSome(m) == Len(m) > 0
IsNone(m) == Len(m) = 0
Val(m) == m[1]
\* the test `s ? ... : ...` / `!s` of a string | null: the empty string is falsy
IsTruthy(m) == Len(m) > 0 /\ m[1] # ""
IsFalsy(m) == ~IsTruthy(m)

----------------------------------------------------------------------------
(* Values the requests and the platform draw from *)

Shop1 == "shop1.myshopify.com"
Shop2 == "shop2.myshopify.com"
Shops == {Shop1, Shop2}
NotAShop == "not a shop"
ValidHost == "YWRtaW4uc2hvcGlmeS5jb20"
InvalidHost == "not%a%host"
UserId == "user1"

AllScopes == {"read_products", "write_products"}
OldScopes == {"read_products"}

\* config.auth.* and the path of an app route
AuthPath == "/auth"
CallbackPath == "/auth/callback"
PatchSessionTokenPath == "/auth/session-token"
ExitIframePath == "/auth/exit-iframe"
LoginPath == "/auth/login"
AppPath == "/app"
AppUrl == "https://app.example"
Paths == {AuthPath, CallbackPath, PatchSessionTokenPath, ExitIframePath, AppPath}

Configs ==
  [isEmbeddedApp : BOOLEAN, useOnlineTokens : BOOLEAN, afterAuth : BOOLEAN,
   scopes : {AllScopes}]

\* Session tokens (JWT): two validly signed ones and one that fails validation
Jwt1 == "jwt.shop1"
Jwt2 == "jwt.shop2"
JwtInvalid == "jwt.invalid"
Jwts == {Jwt1, Jwt2, JwtInvalid}

\* payload.dest is a URL: <<scheme, host, path>>
JwtPayloadOf(token) ==
  [dest |-> <<"https", IF token = Jwt1 THEN Shop1 ELSE Shop2, "/admin">>,
   sub |-> UserId, jwt |-> token]

\* api.session.getOfflineId / getJwtSessionId
getOfflineId(shop) == <<"offline", shop>>
getJwtSessionId(shop, sub) == <<shop, sub>>

SessionIds ==
  {getOfflineId(s) : s \in Shops \cup {NotAShop}}
    \cup {getJwtSessionId(s, UserId) : s \in Shops}

\* A Session as api.auth.callback builds it; an online session expires, and
\* its expiry date is named by the access token it came with
NewSession(shop, isOnline, scope, accessToken) ==
  [id |-> IF isOnline THEN getJwtSessionId(shop, UserId) ELSE getOfflineId(shop),
   shop |-> shop, isOnline |-> isOnline, scope |-> scope,
   expires |-> IF isOnline THEN Some(accessToken) ELSE None,
   accessToken |-> accessToken]

\* Session.isActive(scopes): the granted scopes cover the required ones and
\* the session has not expired
isActive(session, scopes) ==
  /\ scopes \subseteq session.scope
  /\ (IsNone(session.expires) \/ Val(session.expires) \notin past)

\* api.utils.sanitizeShop / sanitizeHost: the value, or null when missing or
\* not of the platform's grammar
sanitizeShop(shop) ==
  IF IsSome(shop) /\ Val(shop) \in Shops THEN shop ELSE None
sanitizeHost(host) ==
  IF IsSome(host) /\ Val(host) = ValidHost THEN host ELSE None

----------------------------------------------------------------------------
(* Requests *)

\* A query parameter; its value is a string, kept as the sequence of its pieces
Param(key, value) == [key |-> key, value |-> value]
OptParam(key, v) == IF IsSome(v) THEN <<Param(key, <<Val(v)>>)>> ELSE <<>>

\* The query of a URL that carries the given parameters, in this order
QueryOf(shop, host, embedded, id_token) ==
  OptParam("shop", shop) \o OptParam("host", host)
    \o OptParam("embedded", embedded) \o OptParam("id_token", id_token)

\* A request by what the handlers read of it; shop, host, embedded and
\* id_token are what url.searchParams.get returns
Request(bot, method, path, shop, host, embedded, authorization, id_token, secFetchDest, cookie) ==
  [bot |-> bot, method |-> method, path |-> path, shop |-> shop, host |-> host,
   embedded |-> embedded, authorization |-> authorization,
   id_token |-> id_token, secFetchDest |-> secFetchDest, cookie |-> cookie]

\* A request that also records the query of its URL, parameter by parameter
RequestWith(bot, method, path, shop, host, embedded, authorization, id_token, secFetchDest, cookie, search) ==
  [bot |-> bot, method |-> method, path |-> path, shop |-> shop, host |-> host,
   embedded |-> embedded, authorization |-> authorization,
   id_token |-> id_token, secFetchDest |-> secFetchDest, cookie |-> cookie,
   search |-> search]

\* new URL(request.url): the recorded query, else the query that lists the
\* parameters of the request
UrlOf(r) ==
  [pathname |-> r.path,
   search |-> IF "search" \in DOMAIN r THEN r.search
              ELSE QueryOf(r.shop, r.host, r.embedded, r.id_token)]

\* url.search: the query string, empty for a URL without parameters
RECURSIVE JoinParams(_)
JoinParams(search) ==
  IF Len(search) = 0 THEN <<>>
  ELSE <<Head(search).key, "=">> \o Head(search).value
         \o (IF Len(search) = 1 THEN <<>> ELSE <<"&">> \o JoinParams(Tail(search)))
SearchString(search) == IF search = <<>> THEN <<>> ELSE <<"?">> \o JoinParams(search)

\* url.searchParams.get: the value of the first parameter of that name
searchParamsGet(search, key) ==
  IF \E i \in DOMAIN search : search[i].key = key
    THEN Some(search[CHOOSE i \in DOMAIN search :
                       /\ search[i].key = key
                       /\ \A j \in DOMAIN search : search[j].key = key => i <= j].value)
    ELSE None

\* url.searchParams.set: the first parameter of that name gets the value and
\* the others of that name are removed; without one the parameter is appended
searchParamsSet(search, key, value) ==
  IF \E i \in DOMAIN search : search[i].key = key
    THEN LET first == CHOOSE i \in DOMAIN search :
                        /\ search[i].key = key
                        /\ \A j \in DOMAIN search : search[j].key = key => i <= j
         IN  SubSeq(search, 1, first - 1) \o <<Param(key, value)>>
               \o SelectSeq(SubSeq(search, first + 1, Len(search)),
                            LAMBDA x : x.key # key)
    ELSE Append(search, Param(key, value))

\* The text of a parameter's value, for the values of one piece
TextOf(v) == IF IsSome(v) THEN Some(Val(v)[1]) ELSE None

\* new URL(destination) of a destination with one-piece parameter values
RECURSIVE ParseParams(_)
ParseParams(s) ==
  IF Len(s) < 3 THEN <<>>
  ELSE <<Param(s[1], <<s[3]>>)>> \o ParseParams(SubSeq(s, 5, Len(s)))
DestinationUrl(destination) ==
  [pathname |-> destination[1],
   search |-> ParseParams(SubSeq(destination, 3, Len(destination)))]

ShopParams == {None, Some(NotAShop), Some(Shop1), Some(Shop2)}
EmbeddedParams == {None, Some("1")}
TokenParams == {None} \cup {Some(t) : t \in Jwts}
Cookies == {None, Some(getOfflineId(Shop1)), Some(getJwtSessionId(Shop1, UserId))}

\* The parts of a request no handler reads on its path are fixed, so that
\* each behaviour of the handlers is drawn once.
\* The bot guard and the OPTIONS responder read the user agent and the method
GuardRequests ==
  {Request(TRUE, "GET", AppPath, Some(Shop1), Some(ValidHost), None, None, None,
           "document", None),
   Request(FALSE, "OPTIONS", AppPath, Some(Shop1), Some(ValidHost), None, None,
           None, "document", None)}

\* The bounce and exit-iframe routes read the path
PageRequests ==
  {Request(FALSE, "GET", path, Some(Shop1), Some(ValidHost), None, None, None,
           "document", None) : path \in {PatchSessionTokenPath, ExitIframePath}}

\* The OAuth routes read the shop and Sec-Fetch-Dest
OAuthRequests ==
  {Request(FALSE, "GET", path, shop, Some(ValidHost), None, None, None, dest, None) :
     path \in {AuthPath, CallbackPath}, shop \in ShopParams,
     dest \in {"document", "iframe"}}

\* With a session token header: an embedded app reads the token; a
\* non-embedded app reads the shop and the session cookie
HeaderRequests(cfg) ==
  IF cfg.isEmbeddedApp
    THEN {Request(FALSE, "GET", AppPath, shop, Some(ValidHost), Some("1"),
                  Some(token), id_token, "document", None) :
            shop \in ShopParams, token \in Jwts, id_token \in {None, Some(Jwt2)}}
    ELSE {Request(FALSE, "GET", AppPath, shop, Some(ValidHost), embedded,
                  Some(Jwt1), None, "document", cookie) :
            shop \in ShopParams, embedded \in EmbeddedParams, cookie \in Cookies}

\* Without one: an embedded app reads shop, then host, then embedded and
\* id_token (validateUrlParams ends the request at the first bad one); a
\* non-embedded app reads shop, embedded and the session cookie
UrlRequests(cfg) ==
  IF cfg.isEmbeddedApp
    THEN {Request(FALSE, "GET", AppPath, shop, Some(ValidHost), None, None, None,
                  "document", None) : shop \in {None, Some(NotAShop)}}
         \cup
         {Request(FALSE, "GET", AppPath, Some(shop), host, None, None, None,
                  "document", None) :
            shop \in Shops, host \in {None, Some(InvalidHost)}}
         \cup
         {Request(FALSE, "GET", AppPath, Some(shop), Some(ValidHost), embedded,
                  None, id_token, "document", None) :
            shop \in Shops, embedded \in EmbeddedParams, id_token \in TokenParams}
    ELSE {Request(FALSE, "GET", AppPath, shop, Some(ValidHost), embedded, None,
                  None, "document", cookie) :
            shop \in ShopParams, embedded \in EmbeddedParams, cookie \in Cookies}

\* Parameters and headers that are present and empty, which the handlers'
\* tests take for missing: an empty shop, id_token or authorization header
EmptyParamRequests(cfg) ==
  IF cfg.isEmbeddedApp
    THEN {Request(FALSE, "GET", AppPath, Some(""), Some(ValidHost), None, None,
                  None, "document", None)}
         \cup
         {Request(FALSE, "GET", AppPath, Some(Shop1), Some(ValidHost), embedded,
                  authorization, id_token, "document", None) :
            embedded \in EmbeddedParams, authorization \in {None, Some("")},
            id_token \in {Some(""), Some(Jwt1)}}
    ELSE {Request(FALSE, "GET", AppPath, Some(""), Some(ValidHost), embedded,
                  authorization, None, "document", cookie) :
            embedded \in EmbeddedParams, authorization \in {None, Some("")},
            cookie \in Cookies}

RequestsOf(cfg) ==
  GuardRequests \cup PageRequests \cup OAuthRequests
    \cup HeaderRequests(cfg) \cup UrlRequests(cfg)

getSessionTokenHeader(r) == r.authorization
getSessionTokenFromUrlParam(r) == r.id_token

----------------------------------------------------------------------------
(* What a request ends with, and the calls it logs *)

NoShop == ""

\* type: "none" | "response" | "context" | "error"
Outcome(type, status, target, shop, isOnline, session, token, shape, err) ==
  [type |-> type, status |-> status, target |-> target, shop |-> shop,
   isOnline |-> isOnline, session |-> session, token |-> token,
   shape |-> shape, err |-> err, cors |-> 0, query |-> <<>>, redirectTo |-> None]

\* redirect(path + query), for the shop if the redirect starts OAuth for one
RedirectWithQuery(target, shop, query) ==
  [type |-> "response", status |-> 302, target |-> target, shop |-> shop,
   isOnline |-> FALSE, session |-> None, token |-> None,
   shape |-> "", err |-> "", cors |-> 0, query |-> query, redirectTo |-> None]

NoOutcome == Outcome("none", 0, "", NoShop, FALSE, None, None, "", "")

\* new Response(..., {status}) and redirect(target)
Response(status, target, shop, isOnline) ==
  Outcome("response", status, target, shop, isOnline, None, None, "", "")

\* a thrown value that is not a Response
Raised(err) == Outcome("error", 0, "", NoShop, FALSE, None, None, "", err)

\* A call: what was called, for which shop and session, and the error it
\* raised ("" when it raised none)
Call(op, shop, id, isOnline, session, err) ==
  [op |-> op, shop |-> shop, id |-> id, isOnline |-> isOnline,
   session |-> session, err |-> err]
Ev(op, shop, id, isOnline, session) == Call(op, shop, id, isOnline, session, "")

\* Effect of a helper that ends by throwing: what it throws, what it called
Thrown(out, ev) == [out |-> out, ev |-> ev]

----------------------------------------------------------------------------
(* Helpers of authenticate/helpers and authenticate/admin/helpers *)

\* rejectBotRequest: throws for a bot's user agent, before anything else
rejectBotRequest(r) ==
  IF r.bot THEN Some(Response(410, "gone", NoShop, FALSE)) ELSE None

\* respondToOptionsRequest: answers a preflight request
respondToOptionsRequest(r) ==
  IF r.method = "OPTIONS" THEN Some(Response(204, "preflight", NoShop, FALSE))
  ELSE None

\* renderAppBridge: the page of the bounce and exit-iframe routes; with a
\* destination, the page sends the top window there
renderAppBridge(r, redirectTo) ==
  [type |-> "response", status |-> 200, target |-> "appBridge", shop |-> NoShop,
   isOnline |-> FALSE, session |-> None, token |-> None,
   shape |-> "", err |-> "", cors |-> 0, query |-> <<>>, redirectTo |-> redirectTo]

\* beginAuth: throws the redirect to the platform's authorize URL that
\* api.auth.begin builds for the shop; never returns
beginAuth(r, isOnline, shop) ==
  Thrown(Response(302, "authorize", shop, isOnline),
         <<Ev("beginAuth", shop, None, isOnline, None)>>)

\* redirectWithExitIframe: throws a redirect to the exit-iframe route, whose
\* destination is the OAuth begin path for the shop
redirectWithExitIframe(r, shop) ==
  LET destination == <<AuthPath>> \o SearchString(<<Param("shop", <<shop>>)>>)
  IN  Thrown(RedirectWithQuery(ExitIframePath, shop,
                               <<Param("exitIframe", destination)>>), <<>>)

\* redirectToAuthPage: starts OAuth for the shop the way the request allows:
\* a reauthorize header for a fetch with an authorization header, the
\* exit-iframe route when embedded=1, else beginAuth for an offline token
redirectToAuthPage(r, shop) ==
  IF IsTruthy(r.authorization)
    THEN Thrown(Response(401, "reauthorize", shop, FALSE), <<>>)
  ELSE IF r.embedded = Some("1") THEN redirectWithExitIframe(r, shop)
  ELSE beginAuth(r, FALSE, shop)

\* redirectToShopifyOrAppRoot: throws a redirect to the embedded app URL in
\* the platform's admin, or to the app's root for a non-embedded app
redirectToShopifyOrAppRoot(cfg, r) ==
  IF cfg.isEmbeddedApp
    THEN Response(302, "shopifyAdmin", NoShop, FALSE)
    ELSE Response(302, "appRoot", NoShop, FALSE)

\* validateSessionToken: the decoded payload, or none when decoding fails
validateSessionToken(token) ==
  IF token \in {Jwt1, Jwt2} THEN Some(JwtPayloadOf(token)) ELSE None

\* api.session.getCurrentId: for a non-embedded app the id in the session
\* cookie; for an embedded app the id named by the authorization header
getCurrentId(cfg, r, isOnline) ==
  IF cfg.isEmbeddedApp
    THEN IF IsTruthy(r.authorization) /\ IsSome(validateSessionToken(Val(r.authorization)))
           THEN LET shop == JwtPayloadOf(Val(r.authorization)).dest[2]
                IN  Some(IF isOnline THEN getJwtSessionId(shop, UserId)
                         ELSE getOfflineId(shop))
           ELSE None
    ELSE r.cookie

\* config.sessionStorage.loadSession
loadSession(id) == IF id \in DOMAIN store THEN Some(store[id]) ELSE None

\* config.sessionStorage.storeSession: the record replaces what the id held
Stored(st, session) ==
  [i \in DOMAIN st \cup {session.id} |-> IF i = session.id THEN session ELSE st[i]]

----------------------------------------------------------------------------
(* AuthCodeFlowStrategy: routes *)

\* What handleRoutes decides: a thrown value, the callback handler, or
\* nothing (the request is no route of the strategy)
Route(next, thrown) == [next |-> next, thrown |-> thrown]
NoThrow == Thrown(NoOutcome, <<>>)

handleBouncePageRoute(cfg, r) ==
  IF r.path = PatchSessionTokenPath
    THEN Route("throw", Thrown(renderAppBridge(r, None), <<>>))
    ELSE Route("pass", NoThrow)

handleExitIframeRoute(cfg, r) ==
  IF r.path = ExitIframePath
    THEN LET destination == searchParamsGet(UrlOf(r).search, "exitIframe")
         IN  Route("throw", Thrown(renderAppBridge(r, destination), <<>>))
    ELSE Route("pass", NoThrow)

\* handleAuthBeginRequest without the iframe check
handleAuthBeginRequest_inPlace(cfg, r, shop) == beginAuth(r, FALSE, shop)

handleAuthBeginRequest(cfg, r, shop) ==
  IF cfg.isEmbeddedApp /\ r.secFetchDest = "iframe"
    THEN redirectWithExitIframe(r, shop)
    ELSE beginAuth(r, FALSE, shop)

\* handleOAuthRoutes running the callback handler on the begin path as well
handleOAuthRoutes_callbackOnBegin(cfg, r) ==
  LET isAuthRequest == r.path = AuthPath
      isAuthCallbackRequest == r.path = CallbackPath
      shop == sanitizeShop(r.shop)
  IN  IF ~isAuthRequest /\ ~isAuthCallbackRequest THEN Route("pass", NoThrow)
      ELSE IF IsNone(shop)
        THEN Route("throw", Thrown(Response(400, "invalidShop", NoShop, FALSE), <<>>))
      ELSE Route("callback", NoThrow)

handleOAuthRoutes(cfg, r) ==
  LET isAuthRequest == r.path = AuthPath
      isAuthCallbackRequest == r.path = CallbackPath
      shop == sanitizeShop(r.shop)
  IN  IF ~isAuthRequest /\ ~isAuthCallbackRequest THEN Route("pass", NoThrow)
      ELSE IF IsNone(shop)
        THEN Route("throw", Thrown(Response(400, "invalidShop", NoShop, FALSE), <<>>))
      ELSE IF isAuthRequest
        THEN Route("throw", handleAuthBeginRequest(cfg, r, Val(shop)))
      ELSE Route("callback", NoThrow)

\* handleRoutes without the bounce page route
handleRoutes_noBounce(cfg, r) ==
  LET exit == handleExitIframeRoute(cfg, r)
  IN  IF exit.next # "pass" THEN exit ELSE handleOAuthRoutes(cfg, r)

handleRoutes(cfg, r) ==
  LET bounce == handleBouncePageRoute(cfg, r)
      exit == handleExitIframeRoute(cfg, r)
  IN  IF bounce.next # "pass" THEN bounce
      ELSE IF exit.next # "pass" THEN exit
      ELSE handleOAuthRoutes(cfg, r)

\* Errors api.auth.callback, the storage and the hook raise
ErrorKinds == {"CookieNotFound", "InvalidHmacError", "InvalidOAuthError", "Error"}

\* oauthCallbackError that knows InvalidHmacError only
oauthCallbackError_hmacOnly(cfg, err, r, shop) ==
  IF err = "CookieNotFound" THEN handleAuthBeginRequest(cfg, r, shop)
  ELSE IF err = "InvalidHmacError"
    THEN Thrown(Response(400, "invalidOAuth", NoShop, FALSE), <<>>)
  ELSE Thrown(Response(500, "internalError", NoShop, FALSE), <<>>)

\* oauthCallbackError without the CookieNotFound case
oauthCallbackError_noRestart(cfg, err, r, shop) ==
  IF err \in {"InvalidHmacError", "InvalidOAuthError"}
    THEN Thrown(Response(400, "invalidOAuth", NoShop, FALSE), <<>>)
  ELSE Thrown(Response(500, "internalError", NoShop, FALSE), <<>>)

oauthCallbackError(cfg, err, r, shop) ==
  IF err = "CookieNotFound" THEN handleAuthBeginRequest(cfg, r, shop)
  ELSE IF err \in {"InvalidHmacError", "InvalidOAuthError"}
    THEN Thrown(Response(400, "invalidOAuth", NoShop, FALSE), <<>>)
  ELSE Thrown(Response(500, "internalError", NoShop, FALSE), <<>>)

\* The catch of handleAuthCallbackRequest: a Response is thrown again, any
\* other error goes through oauthCallbackError
\* handleAuthCallbackRequest without its catch
callbackCatch_none(cfg, thrown, r, shop) == thrown

callbackCatch(cfg, thrown, r, shop) ==
  IF thrown.out.type = "response" THEN thrown
  ELSE LET e == oauthCallbackError(cfg, thrown.out.err, r, shop)
       IN  Thrown(e.out, thrown.ev \o e.ev)

----------------------------------------------------------------------------
(* AuthStrategy: what authenticateAdmin does with the result *)

\* the catch without the call of cors
authenticateAdminCatch_noCors(out) == out

\* catch (errorOrResponse): cors(response) once, then throw it again
authenticateAdminCatch(out) ==
  IF out.type = "response" THEN [out EXCEPT !.cors = @ + 1] ELSE out

\* The context authenticateAdmin returns for a session context
adminContext(cfg, sessionContext) ==
  Outcome("context", 0, "", sessionContext.session.shop, FALSE,
          Some(sessionContext.session),
          IF cfg.isEmbeddedApp THEN sessionContext.token ELSE None,
          IF cfg.isEmbeddedApp THEN "embedded" ELSE "nonEmbedded", "")

NoLocals == [shop |-> NoShop, session |-> None, sessionContext |-> None,
             branch |-> ""]

\* The request of p ends inside authenticateAndGetSessionContext by a throw
Throw(p, thrown) ==
  /\ pc' = [pc EXCEPT ![p] = "done"]
  /\ res' = [res EXCEPT ![p] = authenticateAdminCatch(thrown.out)]
  /\ log' = [log EXCEPT ![p] = @ \o thrown.ev]

Goto(p, next) ==
  /\ pc' = [pc EXCEPT ![p] = next]
  /\ UNCHANGED res

\* The request of p ends with authenticateAdmin returning a context
Return(p, out) ==
  /\ pc' = [pc EXCEPT ![p] = "done"]
  /\ res' = [res EXCEPT ![p] = out]
  /\ UNCHANGED log

Logged(p, ev) == log' = [log EXCEPT ![p] = @ \o ev]

\* What the handler throws comes from a call of beginAuth it still awaits
AwaitsBeginAuth(thrown) ==
  thrown.ev # <<>> /\ thrown.ev[Len(thrown.ev)].op = "beginAuth"

\* The handler's awaited call has completed.  What follows either throws at
\* once, or is `throw await beginAuth(...)`: the request of p is then
\* suspended at that call, with its arguments evaluated
ThrowOrAwait(p, thrown) ==
  IF AwaitsBeginAuth(thrown)
    THEN LET b == thrown.ev[Len(thrown.ev)]
         IN  /\ Goto(p, IF b.isOnline THEN "beginAuthOnline" ELSE "beginAuth")
             /\ Logged(p, SubSeq(thrown.ev, 1, Len(thrown.ev) - 1))
             /\ loc' = [loc EXCEPT ![p].shop = b.shop]
    ELSE Throw(p, thrown) /\ UNCHANGED loc

NoRequest ==
  [bot |-> FALSE, method |-> "GET", path |-> AppPath, shop |-> None,
   host |-> None, embedded |-> None, authorization |-> None,
   id_token |-> None, secFetchDest |-> "document", cookie |-> None]

----------------------------------------------------------------------------
(* authenticateAdmin, lines 66-75: the guards that run before the try *)

AuthenticateAdmin(p, r) ==
  /\ pc[p] = "idle"
  /\ req' = [req EXCEPT ![p] = r]
  /\ IF IsSome(rejectBotRequest(r))
       THEN /\ pc' = [pc EXCEPT ![p] = "done"]
            /\ res' = [res EXCEPT ![p] = Val(rejectBotRequest(r))]
       ELSE IF IsSome(respondToOptionsRequest(r))
         THEN /\ pc' = [pc EXCEPT ![p] = "done"]
              /\ res' = [res EXCEPT ![p] = Val(respondToOptionsRequest(r))]
         ELSE Goto(p, "handleRoutes")
  /\ UNCHANGED <<config, store, past, issued, loc, log>>

(* authenticateAndGetSessionContext, lines 118-131: the routes of the       *)
(* strategy, then the choice of the branch by the session token header     *)
HandleRoutes(p) ==
  /\ pc[p] = "handleRoutes"
  /\ LET r == req[p]
         route == handleRoutes(config, r)
         ev == <<Ev("handleRoutes", NoShop, None, FALSE, None)>>
     IN  IF route.next = "throw"
           THEN Throw(p, Thrown(route.thrown.out, ev \o route.thrown.ev))
                /\ UNCHANGED loc
         ELSE IF route.next = "callback"
           THEN /\ Goto(p, "handleAuthCallbackRequest")
                /\ Logged(p, ev)
                /\ loc' = [loc EXCEPT ![p].shop = Val(sanitizeShop(r.shop))]
         ELSE IF IsTruthy(getSessionTokenHeader(r))
           THEN /\ Goto(p, "getAuthenticatedSession")
                /\ Logged(p, ev)
                /\ loc' = [loc EXCEPT ![p].branch = "header"]
         ELSE /\ Goto(p, "validateUrlParams")
              /\ Logged(p, ev)
              /\ loc' = [loc EXCEPT ![p].branch = "url"]
  /\ UNCHANGED <<config, store, past, issued, req>>

----------------------------------------------------------------------------
(* handleAuthCallbackRequest *)

\* line 130: an online token is still to be requested
\* line 130 without the isOnline test of the session
requestsOnlineToken_never(cfg, session) == FALSE

\* line 130 asking for an online token after every exchange
requestsOnlineToken_always(cfg, session) == cfg.useOnlineTokens

requestsOnlineToken(cfg, session) == cfg.useOnlineTokens /\ ~session.isOnline

\* lines 124-126: api.auth.callback exchanges the code for a session or fails;
\* the catch of lines 138-142 runs up to the beginAuth it awaits (line 110)
HandleAuthCallbackRequest(p) ==
  /\ pc[p] = "handleAuthCallbackRequest"
  /\ LET r == req[p]
         shop == loc[p].shop
         ev == <<Ev("callback", shop, None, FALSE, None)>>
         failed(err) == <<Call("callback", shop, None, FALSE, None, err)>>
     IN  \/ \E isOnline \in BOOLEAN :
              /\ issued < MaxExchanges
              /\ issued' = issued + 1
              /\ loc' = [loc EXCEPT ![p].session =
                           Some(NewSession(shop, isOnline, config.scopes,
                                           issued + 1))]
              /\ Logged(p, ev)
              /\ Goto(p, "storeSession")
         \/ \E err \in ErrorKinds :
              /\ ThrowOrAwait(p, callbackCatch(config, Thrown(Raised(err), failed(err)), r, shop))
              /\ UNCHANGED issued
  /\ UNCHANGED <<config, store, past, req>>

\* storeSession updating a record the store already holds under the id in
\* part: the stored access token is kept, the other fields are replaced
StoreSession_merge(p) ==
  /\ pc[p] = "storeSession"
  /\ LET r == req[p]
         shop == loc[p].shop
         session == Val(loc[p].session)
         merged == IF session.id \in DOMAIN store
                     THEN [session EXCEPT !.accessToken = store[session.id].accessToken]
                     ELSE session
         ev == <<Ev("storeSession", session.shop, session.id, session.isOnline,
                    Some(session))>>
     IN  /\ store' = Stored(store, merged)
         /\ IF requestsOnlineToken(config, session)
              THEN LET b == beginAuth(r, TRUE, shop)
                   IN  ThrowOrAwait(p, callbackCatch(config,
                                         Thrown(b.out, ev \o b.ev), r, shop))
              ELSE Goto(p, "triggerAfterAuthHook") /\ Logged(p, ev)
                   /\ UNCHANGED loc
  /\ UNCHANGED <<config, past, issued, req>>

\* lines 128-131: storeSession, up to the beginAuth for the online token
\* that line 132 awaits
StoreSession(p) ==
  /\ pc[p] = "storeSession"
  /\ LET r == req[p]
         shop == loc[p].shop
         session == Val(loc[p].session)
         ev == <<Ev("storeSession", session.shop, session.id, session.isOnline,
                    Some(session))>>
         failed == <<Call("storeSession", session.shop, session.id,
                          session.isOnline, Some(session), "Error")>>
     IN  \/ /\ store' = Stored(store, session)
            /\ IF requestsOnlineToken(config, session)
                 THEN LET b == beginAuth(r, TRUE, shop)
                      IN  ThrowOrAwait(p, callbackCatch(config,
                                            Thrown(b.out, ev \o b.ev), r, shop))
                 ELSE Goto(p, "triggerAfterAuthHook") /\ Logged(p, ev)
                      /\ UNCHANGED loc
         \/ /\ UNCHANGED <<store, loc>>
            /\ Throw(p, callbackCatch(config, Thrown(Raised("Error"), failed),
                                      r, shop))
  /\ UNCHANGED <<config, past, issued, req>>

\* What the registered hook does: returns, throws a Response, or raises
HookOutcomes == {"ok", "response"} \cup ErrorKinds

\* triggerAfterAuthHook called with the exchanged session: the hook's outcome
\* triggerAfterAuthHook that never runs the hook
triggerAfterAuthHook_skip(cfg, session, o) == Thrown(NoOutcome, <<>>)

triggerAfterAuthHook(cfg, session, o) ==
  IF cfg.afterAuth
    THEN Thrown(IF o = "ok" THEN NoOutcome
                ELSE IF o = "response"
                  THEN Response(302, "hookResponse", NoShop, FALSE)
                ELSE Raised(o),
                <<Call("afterAuth", session.shop, session.id, session.isOnline,
                       Some(session), IF o \in ErrorKinds THEN o ELSE "")>>)
    ELSE NoThrow

\* lines 135-137: the hook.  When a hook ran and returned, the request is
\* suspended at the redirect line 137 awaits; with no hook to run that
\* redirect is the step's one awaited call.  What the hook throws goes
\* through the catch of lines 138-142, up to the beginAuth it awaits
TriggerAfterAuthHook(p) ==
  /\ pc[p] = "triggerAfterAuthHook"
  /\ LET r == req[p]
         shop == loc[p].shop
         session == Val(loc[p].session)
     IN  \E o \in HookOutcomes :
           LET h == triggerAfterAuthHook(config, session, o)
           IN  /\ (~config.afterAuth => o = "ok")
               /\ IF h.out.type # "none"
                    THEN ThrowOrAwait(p, callbackCatch(config, h, r, shop))
                  ELSE IF h.ev # <<>>
                    THEN /\ Goto(p, "redirectToShopifyOrAppRoot")
                         /\ Logged(p, h.ev)
                         /\ UNCHANGED loc
                  ELSE /\ Throw(p, callbackCatch(config,
                                   Thrown(redirectToShopifyOrAppRoot(config, r), <<>>),
                                   r, shop))
                       /\ UNCHANGED loc
  /\ UNCHANGED <<config, store, past, issued, req>>

\* line 137, after the hook returned: throw await redirectToShopifyOrAppRoot
RedirectToShopifyOrAppRoot(p) ==
  /\ pc[p] = "redirectToShopifyOrAppRoot"
  /\ Throw(p, callbackCatch(config,
                Thrown(redirectToShopifyOrAppRoot(config, req[p]), <<>>),
                req[p], loc[p].shop))
  /\ UNCHANGED <<config, store, past, issued, req, loc>>

\* The awaited beginAuth completes and its redirect is thrown: through the
\* catch of lines 138-142 when called inside the try (line 132), as it is when
\* called from that catch (line 110) or from authenticate.ts lines 203, 240
BeginAuth(p) ==
  /\ pc[p] \in {"beginAuth", "beginAuthOnline"}
  /\ LET b == beginAuth(req[p], pc[p] = "beginAuthOnline", loc[p].shop)
     IN  Throw(p, IF pc[p] = "beginAuthOnline"
                    THEN callbackCatch(config, b, req[p], loc[p].shop)
                    ELSE b)
  /\ UNCHANGED <<config, store, past, issued, req, loc>>

----------------------------------------------------------------------------
(* getAuthenticatedSession, manageAccessToken, ensureSessionExists *)

getShopFromSessionToken(payload) == payload.dest[2]

Lookup(err, shop, sessionId, payload) ==
  [err |-> err, shop |-> shop, sessionId |-> sessionId, payload |-> payload]

\* getAuthenticatedSession that takes the shop of a token request from the URL
getSessionId_shopParam(cfg, r) ==
  LET sessionToken == IF IsTruthy(getSessionTokenHeader(r))
                        THEN getSessionTokenHeader(r)
                        ELSE getSessionTokenFromUrlParam(r)
      shop == IF IsSome(r.shop) THEN Val(r.shop) ELSE NoShop
  IN  IF cfg.isEmbeddedApp /\ IsTruthy(sessionToken)
        THEN LET payload == validateSessionToken(Val(sessionToken))
             IN  IF IsNone(payload)
                   THEN Lookup("InvalidToken", NoShop, None, None)
                   ELSE Lookup("", shop,
                               Some(IF cfg.useOnlineTokens
                                      THEN getJwtSessionId(shop, Val(payload).sub)
                                      ELSE getOfflineId(shop)),
                               payload)
      ELSE IF ~cfg.isEmbeddedApp
        THEN Lookup("", shop, getCurrentId(cfg, r, cfg.useOnlineTokens), None)
      ELSE Lookup("ShopifyError", NoShop, None, None)

\* getAuthenticatedSession that always looks the online session up
getSessionId_online(cfg, r) ==
  LET sessionToken == IF IsTruthy(getSessionTokenHeader(r))
                        THEN getSessionTokenHeader(r)
                        ELSE getSessionTokenFromUrlParam(r)
  IN  IF cfg.isEmbeddedApp /\ IsTruthy(sessionToken)
        THEN LET payload == validateSessionToken(Val(sessionToken))
             IN  IF IsNone(payload)
                   THEN Lookup("InvalidToken", NoShop, None, None)
                   ELSE LET shop == getShopFromSessionToken(Val(payload))
                        IN  Lookup("", shop,
                                   Some(getJwtSessionId(shop, Val(payload).sub)),
                                   payload)
      ELSE IF ~cfg.isEmbeddedApp
        THEN Lookup("", IF IsSome(r.shop) THEN Val(r.shop) ELSE NoShop,
                    getCurrentId(cfg, r, TRUE), None)
      ELSE Lookup("ShopifyError", NoShop, None, None)

\* lines 347-372: the shop and the session id of the request, or an error
getSessionId(cfg, r) ==
  LET sessionToken == IF IsTruthy(getSessionTokenHeader(r))
                        THEN getSessionTokenHeader(r)
                        ELSE getSessionTokenFromUrlParam(r)
  IN  IF cfg.isEmbeddedApp /\ IsTruthy(sessionToken)
        THEN LET payload == validateSessionToken(Val(sessionToken))
             IN  IF IsNone(payload)
                   THEN Lookup("InvalidToken", NoShop, None, None)
                   ELSE LET shop == getShopFromSessionToken(Val(payload))
                        IN  Lookup("", shop,
                                   Some(IF cfg.useOnlineTokens
                                          THEN getJwtSessionId(shop, Val(payload).sub)
                                          ELSE getOfflineId(shop)),
                                   payload)
      ELSE IF ~cfg.isEmbeddedApp
        THEN Lookup("", IF IsSome(r.shop) THEN Val(r.shop) ELSE NoShop,
                    getCurrentId(cfg, r, cfg.useOnlineTokens), None)
      ELSE Lookup("ShopifyError", NoShop, None, None)

SessionContext(session, token) == [session |-> session, token |-> token]

\* lines 338-383, for both branches: for an embedded app the session token
\* is validated and the request is suspended at the loadSession of line 378;
\* otherwise the session id comes from the cookie and the session is loaded
GetAuthenticatedSession(p) ==
  /\ pc[p] = "getAuthenticatedSession"
  /\ LET r == req[p]
         l == getSessionId(config, r)
         next == IF loc[p].branch = "header" THEN "manageAccessToken"
                 ELSE "ensureSessionExists"
         tokenEv == IF IsSome(l.payload) \/ l.err = "InvalidToken"
                      THEN <<Call("validateSessionToken", l.shop, None, FALSE, None,
                                  IF l.err = "InvalidToken" THEN l.err ELSE "")>>
                      ELSE <<>>
     IN  IF l.err # ""
           THEN Throw(p, Thrown(Raised(l.err), tokenEv)) /\ UNCHANGED loc
         ELSE IF IsSome(l.payload)
           THEN /\ Goto(p, "loadSession")
                /\ Logged(p, tokenEv)
                /\ UNCHANGED loc
         ELSE IF IsNone(l.sessionId)
           THEN /\ Goto(p, next)
                /\ Logged(p, tokenEv)
                /\ loc' = [loc EXCEPT ![p].shop = l.shop,
                                      ![p].sessionContext = None]
         ELSE LET loadEv == <<Ev("loadSession", l.shop, Val(l.sessionId),
                                 config.useOnlineTokens, None)>>
                  session == loadSession(Val(l.sessionId))
              IN  \/ /\ Goto(p, next)
                     /\ Logged(p, tokenEv \o loadEv)
                     /\ loc' = [loc EXCEPT
                          ![p].shop = l.shop,
                          ![p].sessionContext =
                             IF IsSome(session)
                               THEN Some(SessionContext(Val(session), l.payload))
                               ELSE None]
                  \/ /\ Throw(p, Thrown(Raised("StorageError"),
                                         tokenEv \o <<Call("loadSession", l.shop,
                                                           Val(l.sessionId),
                                                           config.useOnlineTokens,
                                                           None, "StorageError")>>))
                     /\ UNCHANGED loc
  /\ UNCHANGED <<config, store, past, issued, req>>

\* lines 378-382 and 385-391: the session of the validated token is loaded
LoadSession(p) ==
  /\ pc[p] = "loadSession"
  /\ LET l == getSessionId(config, req[p])
         next == IF loc[p].branch = "header" THEN "manageAccessToken"
                 ELSE "ensureSessionExists"
         session == loadSession(Val(l.sessionId))
     IN  \/ /\ Goto(p, next)
            /\ Logged(p, <<Ev("loadSession", l.shop, Val(l.sessionId),
                              config.useOnlineTokens, None)>>)
            /\ loc' = [loc EXCEPT
                 ![p].shop = l.shop,
                 ![p].sessionContext =
                    IF IsSome(session)
                      THEN Some(SessionContext(Val(session), l.payload))
                      ELSE None]
         \/ /\ Throw(p, Thrown(Raised("StorageError"),
                                <<Call("loadSession", l.shop, Val(l.sessionId),
                                       config.useOnlineTokens, None,
                                       "StorageError")>>))
            /\ UNCHANGED loc
  /\ UNCHANGED <<config, store, past, issued, req>>

\* manageAccessToken without the isActive check
manageAccessToken_noActive(cfg, sessionContext, shop, r) ==
  IF IsNone(sessionContext) THEN redirectToAuthPage(r, shop) ELSE NoThrow

\* auth-code-flow.ts lines 29-48
manageAccessToken(cfg, sessionContext, shop, r) ==
  IF IsNone(sessionContext) \/ ~isActive(Val(sessionContext).session, cfg.scopes)
    THEN redirectToAuthPage(r, shop)
    ELSE NoThrow

ManageAccessToken(p) ==
  /\ pc[p] = "manageAccessToken"
  /\ LET t == manageAccessToken(config, loc[p].sessionContext, loc[p].shop, req[p])
     IN  IF t = NoThrow
           THEN Return(p, adminContext(config, Val(loc[p].sessionContext)))
           ELSE Throw(p, t)
  /\ UNCHANGED <<config, store, past, issued, req, loc>>

\* authenticate.ts lines 316-331
ensureSessionExists(cfg, sessionContext, shop, r) ==
  IF IsNone(sessionContext) \/ ~isActive(Val(sessionContext).session, cfg.scopes)
    THEN redirectToAuthPage(r, shop)
    ELSE NoThrow

EnsureSessionExists(p) ==
  /\ pc[p] = "ensureSessionExists"
  /\ LET t == ensureSessionExists(config, loc[p].sessionContext, loc[p].shop, req[p])
     IN  IF t = NoThrow
           THEN Return(p, adminContext(config, Val(loc[p].sessionContext)))
           ELSE Throw(p, t)
  /\ UNCHANGED <<config, store, past, issued, req, loc>>

----------------------------------------------------------------------------
(* The branch without a session token header *)

\* validateUrlParams without the host check
validateUrlParams_shopOnly(cfg, r) ==
  IF cfg.isEmbeddedApp /\ IsNone(sanitizeShop(r.shop))
    THEN Thrown(Response(302, LoginPath, NoShop, FALSE), <<>>)
    ELSE NoThrow

\* lines 140-161
validateUrlParams(cfg, r) ==
  IF cfg.isEmbeddedApp
    THEN IF IsNone(sanitizeShop(r.shop))
           THEN Thrown(Response(302, LoginPath, NoShop, FALSE), <<>>)
         ELSE IF IsNone(sanitizeHost(r.host))
           THEN Thrown(Response(302, LoginPath, NoShop, FALSE), <<>>)
         ELSE NoThrow
    ELSE NoThrow

ValidateUrlParams(p) ==
  /\ pc[p] = "validateUrlParams"
  /\ LET t == validateUrlParams(config, req[p])
         ev == <<Ev("validateUrlParams", NoShop, None, FALSE, None)>>
     IN  IF t = NoThrow
           THEN Goto(p, "ensureInstalledOnShop") /\ Logged(p, ev)
           ELSE Throw(p, Thrown(t.out, ev \o t.ev))
  /\ UNCHANGED <<config, store, past, issued, req, loc>>

\* lines 163-179: the id of the shop's offline session
getOfflineTokenId(cfg, r) ==
  IF IsTruthy(r.shop) THEN Some(getOfflineId(Val(r.shop)))
  ELSE getCurrentId(cfg, r, FALSE)

\* lines 196-205 starting OAuth in place whether or not embedded=1
notInstalled_beginOnly(r) ==
  beginAuth(r, FALSE, IF IsSome(r.shop) THEN Val(r.shop) ELSE NoShop)

\* lines 196-205: the shop has not installed the app
notInstalled(r) ==
  LET shop == IF IsSome(r.shop) THEN Val(r.shop) ELSE NoShop
  IN  IF r.embedded = Some("1") THEN redirectWithExitIframe(r, shop)
      ELSE beginAuth(r, FALSE, shop)

\* lines 184-209: getOfflineToken, then the installed check, up to the
\* beginAuth that line 203 awaits
EnsureInstalledOnShop(p) ==
  /\ pc[p] = "ensureInstalledOnShop"
  /\ LET r == req[p]
         offlineId == getOfflineTokenId(config, r)
         ev == <<Ev("ensureInstalledOnShop", NoShop, None, FALSE, None)>>
     IN  IF IsNone(offlineId)
           THEN /\ Throw(p, Thrown(Response(400, "badRequest", NoShop, FALSE), ev))
                /\ UNCHANGED loc
           ELSE LET loadEv == ev \o <<Ev("getOfflineToken", Val(offlineId)[2],
                                         Val(offlineId), FALSE, None)>>
                    offlineSession == loadSession(Val(offlineId))
                IN  \/ /\ Throw(p, Thrown(Raised("StorageError"),
                                           ev \o <<Call("getOfflineToken",
                                                        Val(offlineId)[2],
                                                        Val(offlineId), FALSE, None,
                                                        "StorageError")>>))
                       /\ UNCHANGED loc
                    \/ IF IsNone(offlineSession)
                         THEN ThrowOrAwait(p, Thrown(notInstalled(r).out,
                                                     loadEv \o notInstalled(r).ev))
                         ELSE /\ Logged(p, loadEv)
                              /\ loc' = [loc EXCEPT
                                   ![p].session = offlineSession,
                                   ![p].shop = IF IsTruthy(r.shop) THEN Val(r.shop)
                                               ELSE Val(offlineSession).shop]
                              /\ Goto(p, IF config.isEmbeddedApp /\ r.embedded # Some("1")
                                           THEN "testSession"
                                           ELSE "ensureAppIsEmbeddedIfRequired")
  /\ UNCHANGED <<config, store, past, issued, req>>

\* What the GraphQL query of testSession ends with
ProbeOutcomes == {"ok", "Http401", "Http503", "GraphqlQueryError", "Error"}

\* lines 228-268: what the failed probe throws; nothing for an error that is
\* neither an HttpResponseError nor a GraphqlQueryError
handleInvalidOfflineSession(error, r, shop) ==
  IF error \in {"Http401", "Http503"}
    THEN IF error = "Http401" THEN beginAuth(r, FALSE, shop)
         ELSE Thrown(Response(503, "remoteError", NoShop, FALSE), <<>>)
  ELSE IF error = "GraphqlQueryError"
    THEN Thrown(Response(500, "internalError", NoShop, FALSE), <<>>)
  ELSE NoThrow

\* lines 209-225: the probe of the offline session before embedding, up to
\* the beginAuth that line 240 awaits after a 401
TestSession(p) ==
  /\ pc[p] = "testSession"
  /\ LET r == req[p]
         shop == loc[p].shop
     IN  \E o \in ProbeOutcomes :
           LET ev == <<Call("testSession", Val(loc[p].session).shop,
                            Val(loc[p].session).id, FALSE, None,
                            IF o = "ok" THEN "" ELSE o)>>
               t == IF o = "ok" THEN NoThrow
                    ELSE handleInvalidOfflineSession(o, r, shop)
           IN  IF t = NoThrow
                 THEN Goto(p, "ensureAppIsEmbeddedIfRequired") /\ Logged(p, ev)
                      /\ UNCHANGED loc
                 ELSE ThrowOrAwait(p, Thrown(t.out, ev \o t.ev))
  /\ UNCHANGED <<config, store, past, issued, req>>

\* lines 288-298
ensureAppIsEmbeddedIfRequired(cfg, r) ==
  IF cfg.isEmbeddedApp /\ r.embedded # Some("1")
    THEN Thrown(redirectToShopifyOrAppRoot(cfg, r), <<>>)
    ELSE NoThrow

EnsureAppIsEmbeddedIfRequired(p) ==
  /\ pc[p] = "ensureAppIsEmbeddedIfRequired"
  /\ LET t == ensureAppIsEmbeddedIfRequired(config, req[p])
         ev == <<Ev("ensureAppIsEmbeddedIfRequired", NoShop, None, FALSE, None)>>
     IN  IF t = NoThrow
           THEN Goto(p, "ensureSessionTokenSearchParamIfRequired") /\ Logged(p, ev)
           ELSE Throw(p, Thrown(t.out, ev \o t.ev))
  /\ UNCHANGED <<config, store, past, issued, req, loc>>

\* redirectToBouncePage redirecting to the bare bounce path
redirectToBouncePage_noQuery(cfg, url) ==
  Thrown(Response(302, PatchSessionTokenPath, NoShop, FALSE), <<>>)

\* lines 393-407: the reload target is built from url.search before set
\* changes it; the redirect carries url.search as it is after set
redirectToBouncePage(cfg, url) ==
  LET reload == <<AppUrl, url.pathname>> \o SearchString(url.search)
      search == searchParamsSet(url.search, "shopify-reload", reload)
  IN  Thrown(RedirectWithQuery(PatchSessionTokenPath, NoShop, search), <<>>)

\* ensureSessionTokenSearchParamIfRequired that never goes to the bounce page
ensureSessionTokenSearchParamIfRequired_never(cfg, r) == NoThrow

\* lines 300-314
ensureSessionTokenSearchParamIfRequired(cfg, r) ==
  IF cfg.isEmbeddedApp /\ IsFalsy(r.id_token)
    THEN redirectToBouncePage(cfg, UrlOf(r))
    ELSE NoThrow

EnsureSessionTokenSearchParamIfRequired(p) ==
  /\ pc[p] = "ensureSessionTokenSearchParamIfRequired"
  /\ LET t == ensureSessionTokenSearchParamIfRequired(config, req[p])
         ev == <<Ev("ensureSessionTokenSearchParamIfRequired", NoShop, None,
                    FALSE, None)>>
     IN  IF t = NoThrow
           THEN Goto(p, "getAuthenticatedSession") /\ Logged(p, ev)
           ELSE Throw(p, Thrown(t.out, ev \o t.ev))
  /\ UNCHANGED <<config, store, past, issued, req, loc>>

----------------------------------------------------------------------------
(* The environment and the specification *)

\* Time passes: the expiry date of a stored online session is reached
Expire ==
  /\ \E id \in DOMAIN store :
       /\ IsSome(store[id].expires)
       /\ Val(store[id].expires) \notin past
       /\ past' = past \cup {Val(store[id].expires)}
  /\ UNCHANGED <<config, store, issued, pc, req, loc, log, res>>

\* The caller is done with the result; the process takes the next request
Reset(p) ==
  /\ pc[p] = "done"
  /\ pc' = [pc EXCEPT ![p] = "idle"]
  /\ req' = [req EXCEPT ![p] = NoRequest]
  /\ loc' = [loc EXCEPT ![p] = NoLocals]
  /\ log' = [log EXCEPT ![p] = <<>>]
  /\ res' = [res EXCEPT ![p] = NoOutcome]
  /\ UNCHANGED <<config, store, past, issued>>

\* A storage that served an earlier deployment of the app may hold a session
\* granted for that deployment's scopes
LegacySession == NewSession(Shop1, FALSE, OldScopes, 0)
InitialStores == {<<>>, Stored(<<>>, LegacySession)}

Init ==
  /\ config \in Configs
  /\ store \in InitialStores
  /\ past = {}
  /\ issued = 0
  /\ pc = [p \in Procs |-> "idle"]
  /\ req = [p \in Procs |-> NoRequest]
  /\ loc = [p \in Procs |-> NoLocals]
  /\ log = [p \in Procs |-> <<>>]
  /\ res = [p \in Procs |-> NoOutcome]

Receive(p) == \E r \in RequestsOf(config) : AuthenticateAdmin(p, r)

\* One request at a time
Next ==
  \/ Expire
  \/ Receive(1)
  \/ HandleRoutes(1)
  \/ HandleAuthCallbackRequest(1)
  \/ StoreSession(1)
  \/ TriggerAfterAuthHook(1)
  \/ RedirectToShopifyOrAppRoot(1)
  \/ BeginAuth(1)
  \/ GetAuthenticatedSession(1)
  \/ LoadSession(1)
  \/ ManageAccessToken(1)
  \/ ValidateUrlParams(1)
  \/ EnsureInstalledOnShop(1)
  \/ TestSession(1)
  \/ EnsureAppIsEmbeddedIfRequired(1)
  \/ EnsureSessionTokenSearchParamIfRequired(1)
  \/ EnsureSessionExists(1)
  \/ Reset(1)

Spec == Init /\ [][Next]_vars

----------------------------------------------------------------------------
(* Properties *)

Called(p, op) == {i \in DOMAIN log[p] : log[p][i].op = op}
Failed(p) == {i \in DOMAIN log[p] : log[p][i].err # ""}
Done(p) == pc[p] = "done"

\* A response that starts OAuth for the shop: the authorize redirect of
\* beginAuth, the exit-iframe redirect or the reauthorize header
OAuthStart(out, shop) ==
  /\ out.type = "response"
  /\ out.shop = shop
  /\ \/ out.status = 302 /\ out.target \in {"authorize", ExitIframePath}
     \/ out.status = 401 /\ out.target = "reauthorize"

\* The request went past the guards to an app route
AppRequest(p) ==
  /\ pc[p] # "idle"
  /\ ~req[p].bot /\ req[p].method # "OPTIONS" /\ req[p].path = AppPath

\* The request is a callback whose shop parameter was accepted
CallbackRequest(p) ==
  /\ pc[p] # "idle"
  /\ ~req[p].bot /\ req[p].method # "OPTIONS" /\ req[p].path = CallbackPath
  /\ IsSome(sanitizeShop(req[p].shop))

\* The session token the request carries: the header, else the URL parameter
CarriedToken(r) ==
  IF IsTruthy(r.authorization) THEN r.authorization ELSE r.id_token
CarriesValidToken(r) ==
  IsTruthy(CarriedToken(r)) /\ IsSome(validateSessionToken(Val(CarriedToken(r))))
TokenShop(r) ==
  getShopFromSessionToken(Val(validateSessionToken(Val(CarriedToken(r)))))

\* What oauthCallbackError is to answer for an error of the callback
Classified(p, err) ==
  LET r == req[p]
      shop == Val(sanitizeShop(r.shop))
  IN  /\ res[p].type = "response"
      /\ err = "CookieNotFound" =>
           /\ res[p].status = 302 /\ res[p].shop = shop
           /\ IF config.isEmbeddedApp /\ r.secFetchDest = "iframe"
                THEN res[p].target = ExitIframePath
                ELSE res[p].target = "authorize" /\ ~res[p].isOnline
      /\ err \in {"InvalidHmacError", "InvalidOAuthError"} => res[p].status = 400
      /\ err \notin {"CookieNotFound", "InvalidHmacError", "InvalidOAuthError"} =>
           res[p].status = 500

\* C1: authenticateAdmin returns a context only from manageAccessToken or
\* ensureSessionExists, for a session that was loaded from the store and is
\* active when they check it; when the session is absent or inactive there,
\* the request ends with an OAuth start for the shop and no context.
C1_Step(p) ==
  LET sc == loc[p].sessionContext
      active == IsSome(sc) /\ isActive(Val(sc).session, config.scopes)
  IN  /\ (pc[p] # "done" /\ pc'[p] = "done" /\ res'[p].type = "context") =>
           /\ pc[p] \in {"manageAccessToken", "ensureSessionExists"}
           /\ active
           /\ res'[p].session = Some(Val(sc).session)
           /\ Val(sc).session.id \in DOMAIN store
           /\ store[Val(sc).session.id] = Val(sc).session
           /\ \E i \in Called(p, "loadSession") : log[p][i].id = Val(sc).session.id
      /\ (pc[p] \in {"manageAccessToken", "ensureSessionExists"}
            /\ pc'[p] # pc[p] /\ ~active) =>
           /\ pc'[p] = "done"
           /\ OAuthStart(res'[p], loc[p].shop)
C1_ContextOnlyForActiveSession == [][\A p \in Procs : C1_Step(p)]_vars

C1_Witness ==
  \E p \in Procs :
    /\ Done(p) /\ res[p].type = "context"
    /\ loc[p].branch = "url" /\ Val(res[p].session).isOnline

\* C2 as claimed: for an embedded app and a request with a valid session
\* token, every call that takes a tenant and every OAuth start use the host
\* of the token's dest (the storage not failing).
TenantCalls == {"getOfflineToken", "loadSession", "testSession", "beginAuth"}
C2_TenantIsTokenDest ==
  \A p \in Procs :
    (config.isEmbeddedApp /\ AppRequest(p) /\ CarriesValidToken(req[p])
       /\ res[p].err # "StorageError") =>
      /\ \A i \in DOMAIN log[p] :
           log[p][i].op \in TenantCalls => log[p][i].shop = TokenShop(req[p])
      /\ (res[p].type = "response" /\ res[p].shop # NoShop) =>
           res[p].shop = TokenShop(req[p])

\* C2 amended: the session lookup, the context and the OAuth start of
\* manageAccessToken / ensureSessionExists use the host of the token's dest,
\* and so does every step of a request with the token in the header; without
\* the header, the installed check, the probe and their OAuth starts use the
\* shop URL parameter.
C2_SessionTenantIsTokenDest ==
  \A p \in Procs :
    (config.isEmbeddedApp /\ AppRequest(p) /\ CarriesValidToken(req[p])) =>
      LET r == req[p]
          T == TokenShop(r)
          lookedUp == Called(p, "validateSessionToken") # {}
      IN  /\ \A i \in Called(p, "loadSession") :
               /\ log[p][i].shop = T
               /\ log[p][i].id = IF config.useOnlineTokens
                                   THEN getJwtSessionId(T, UserId)
                                   ELSE getOfflineId(T)
          /\ res[p].type = "context" => Val(res[p].session).shop = T
          /\ (lookedUp /\ res[p].type = "response") => OAuthStart(res[p], T)
          /\ IsTruthy(r.authorization) =>
               \A i \in DOMAIN log[p] :
                 log[p][i].op \in TenantCalls => log[p][i].shop = T
          /\ IsFalsy(r.authorization) =>
               /\ \A i \in DOMAIN log[p] :
                    log[p][i].op \in {"getOfflineToken", "testSession"} =>
                      log[p][i].shop = Val(r.shop)
               /\ (~lookedUp /\ res[p].type = "response" /\ res[p].shop # NoShop) =>
                    res[p].shop = Val(r.shop)

C2_Witness ==
  \E p \in Procs :
    /\ Done(p) /\ config.isEmbeddedApp /\ res[p].type = "context"
    /\ IsFalsy(req[p].authorization)
    /\ req[p].id_token = Some(Jwt1) /\ req[p].shop = Some(Shop2)
    /\ Val(res[p].session).shop = Shop1

\* C3: a callback whose exchange fails with InvalidHmacError or
\* InvalidOAuthError ends with a 400 response, and neither storeSession nor
\* the afterAuth hook is called in it.
C3_InvalidCallbackIs400 ==
  \A p \in Procs :
    (Done(p) /\ \E i \in Called(p, "callback") :
                  log[p][i].err \in {"InvalidHmacError", "InvalidOAuthError"}) =>
      /\ res[p].type = "response" /\ res[p].status = 400
      /\ Called(p, "storeSession") = {}
      /\ Called(p, "afterAuth") = {}

C3_Witness ==
  \E p \in Procs :
    /\ Done(p) /\ res[p].status = 400
    /\ \E i \in Called(p, "callback") : log[p][i].err = "InvalidOAuthError"

\* C4: with useOnlineTokens, a callback whose exchange returned an offline
\* session calls storeSession for it first; once that is stored it ends with
\* the OAuth begin redirect for an online token; it never calls the hook and
\* never ends with the success redirect.
C4_OnlineTokenRequestedAfterStore ==
  \A p \in Procs :
    (Done(p) /\ CallbackRequest(p) /\ config.useOnlineTokens
       /\ IsSome(loc[p].session) /\ ~Val(loc[p].session).isOnline) =>
      LET session == Val(loc[p].session)
          n == Len(log[p])
      IN  /\ Called(p, "afterAuth") = {}
          /\ res[p].target \notin {"shopifyAdmin", "appRoot"}
          /\ Called(p, "storeSession") # {}
          /\ \A i \in Called(p, "storeSession") :
               /\ log[p][i].session = Some(session)
               /\ \A j \in Called(p, "beginAuth") : i < j
          /\ IF Failed(p) = {}
               THEN /\ res[p].type = "response" /\ res[p].status = 302
                    /\ res[p].target = "authorize" /\ res[p].isOnline
                    /\ res[p].shop = session.shop
                    /\ log[p][n].op = "beginAuth" /\ log[p][n].isOnline
                    /\ log[p][n - 1].op = "storeSession"
                    /\ session.id \in DOMAIN store
               ELSE res[p].type = "response" /\ res[p].status = 500

C4_Witness ==
  \E p \in Procs :
    /\ Done(p) /\ CallbackRequest(p) /\ config.useOnlineTokens
    /\ config.afterAuth
    /\ IsSome(loc[p].session) /\ ~Val(loc[p].session).isOnline
    /\ res[p].target = "authorize" /\ res[p].isOnline

\* C5: with an afterAuth hook registered, a callback that ends with the
\* success redirect has called the hook exactly once, as its last call and
\* right after the storeSession that stored the session the hook got; a
\* callback that ends before the hook step has not called it.
SuccessRedirect(out) ==
  out.type = "response" /\ out.status = 302
    /\ out.target \in {"shopifyAdmin", "appRoot"}
C5_HookOnceBeforeSuccessRedirect ==
  \A p \in Procs :
    (Done(p) /\ CallbackRequest(p) /\ config.afterAuth) =>
      LET n == Len(log[p])
      IN  /\ Cardinality(Called(p, "afterAuth")) <= 1
          /\ SuccessRedirect(res[p]) =>
               /\ Called(p, "afterAuth") = {n}
               /\ log[p][n].err = ""
               /\ log[p][n - 1].op = "storeSession" /\ log[p][n - 1].err = ""
               /\ log[p][n].session = log[p][n - 1].session
               /\ log[p][n].session = loc[p].session
          /\ (Called(p, "storeSession") = {}
                \/ (\E i \in Called(p, "storeSession") : log[p][i].err # "")
                \/ (config.useOnlineTokens /\ IsSome(loc[p].session)
                      /\ ~Val(loc[p].session).isOnline)) =>
               Called(p, "afterAuth") = {}

C5_Witness ==
  \E p \in Procs :
    /\ Done(p) /\ CallbackRequest(p) /\ config.afterAuth
    /\ SuccessRedirect(res[p]) /\ Called(p, "afterAuth") # {}

\* C6 as claimed: an error the afterAuth hook raises reaches the caller of
\* authenticateAdmin as that error.
C6_HookErrorPropagates ==
  \A p \in Procs :
    \A i \in Called(p, "afterAuth") :
      (Done(p) /\ log[p][i].err # "") =>
        res[p].type = "error" /\ res[p].err = log[p][i].err

\* C6 amended: an error the hook raises is caught by
\* handleAuthCallbackRequest and reaches the caller as the Response
\* oauthCallbackError picks for it (500 for an error of no special class);
\* only a Response the hook throws reaches the caller as it is.
C6_HookErrorClassified ==
  \A p \in Procs :
    \A i \in Called(p, "afterAuth") :
      Done(p) =>
        /\ log[p][i].err # "" => Classified(p, log[p][i].err)
        /\ log[p][i].err = "" =>
             \/ SuccessRedirect(res[p])
             \/ res[p] = [Response(302, "hookResponse", NoShop, FALSE)
                            EXCEPT !.cors = 1]

C6_Witness ==
  \E p \in Procs :
    /\ Done(p) /\ res[p].type = "response" /\ res[p].status = 500
    /\ \E i \in Called(p, "afterAuth") : log[p][i].err = "Error"

\* The first call of the request that raised an error
FirstFailed(p) == CHOOSE i \in Failed(p) : \A j \in Failed(p) : i <= j

\* C7 as stated: whatever step of a callback raises an error (the exchange,
\* storeSession, the hook, a beginAuth or the begin restarted for
\* CookieNotFound), the request ends with a Response and with no error that
\* is not one: the restarted OAuth begin for CookieNotFound, 400 for
\* InvalidHmacError and InvalidOAuthError, 500 for any other error.
C7_CallbackErrorsClassified ==
  \A p \in Procs :
    (Done(p) /\ CallbackRequest(p)) =>
      /\ res[p].type = "response"
      /\ \A i \in Failed(p) :
           log[p][i].op \in {"callback", "storeSession", "afterAuth", "beginAuth"}
      /\ Failed(p) # {} => Classified(p, log[p][FirstFailed(p)].err)

\* C8: a callback whose exchange fails with CookieNotFound ends with a new
\* OAuth begin for the shop of the callback URL (the exit-iframe redirect
\* for an embedded app in an iframe, else the authorize redirect for an
\* offline token), never with a 4xx or 5xx, and calls no storeSession.
C8_CookieNotFoundRestartsOAuth ==
  \A p \in Procs :
    (Done(p) /\ \E i \in Called(p, "callback") : log[p][i].err = "CookieNotFound") =>
      /\ res[p].type = "response" /\ res[p].status = 302
      /\ res[p].shop = Val(req[p].shop)
      /\ IF config.isEmbeddedApp /\ req[p].secFetchDest = "iframe"
           THEN res[p].target = ExitIframePath /\ Called(p, "beginAuth") = {}
           ELSE /\ res[p].target = "authorize" /\ ~res[p].isOnline
                /\ \E i \in Called(p, "beginAuth") :
                     log[p][i].shop = Val(req[p].shop) /\ ~log[p][i].isOnline
      /\ Called(p, "storeSession") = {}

C8_Witness ==
  \E p \in Procs :
    /\ Done(p) /\ config.isEmbeddedApp /\ req[p].secFetchDest = "iframe"
    /\ res[p].target = ExitIframePath
    /\ \E i \in Called(p, "callback") : log[p][i].err = "CookieNotFound"

\* C9: for an embedded app, a request to the OAuth begin path with a valid
\* shop and Sec-Fetch-Dest: iframe calls no beginAuth and ends with the
\* exit-iframe redirect for the shop, whose destination is the begin path
\* for the shop.
C9_BeginInIframeExitsIframe ==
  \A p \in Procs :
    (Done(p) /\ config.isEmbeddedApp /\ ~req[p].bot /\ req[p].method # "OPTIONS"
       /\ req[p].path = AuthPath /\ IsSome(sanitizeShop(req[p].shop))
       /\ req[p].secFetchDest = "iframe") =>
      /\ Called(p, "beginAuth") = {}
      /\ res[p].type = "response" /\ res[p].status = 302 /\ res[p].cors = 1
      /\ res[p].target = ExitIframePath /\ res[p].shop = Val(req[p].shop)
      /\ searchParamsGet(res[p].query, "exitIframe")
           = Some(<<AuthPath, "?", "shop", "=", Val(req[p].shop)>>)

C9_Witness ==
  \E p \in Procs :
    /\ Done(p) /\ config.isEmbeddedApp /\ req[p].path = AuthPath
    /\ req[p].secFetchDest = "iframe" /\ req[p].shop = Some(Shop2)
    /\ res[p].target = ExitIframePath

\* The store holds an active offline session for the tenant of the token
HoldsActiveOffline(r) ==
  /\ getOfflineId(TokenShop(r)) \in DOMAIN store
  /\ isActive(store[getOfflineId(TokenShop(r))], config.scopes)

\* The URL parameters let a request without a header reach the session lookup
UrlParamsPass(r) ==
  /\ IsSome(sanitizeShop(r.shop)) /\ IsSome(sanitizeHost(r.host))
  /\ r.embedded = Some("1")
  /\ getOfflineId(Val(r.shop)) \in DOMAIN store

ContextOfStoredOffline(p) ==
  /\ res[p].type = "context"
  /\ res[p].session = Some(store[getOfflineId(TokenShop(req[p]))])
  /\ Called(p, "storeSession") = {}

\* C10 as claimed: for an embedded app, a request with a valid session token
\* for a tenant whose active offline session is stored gets a context with
\* that session (the load from the storage not failing).
C10_ContextForStoredOffline ==
  \A p \in Procs :
    (Done(p) /\ config.isEmbeddedApp /\ AppRequest(p)
       /\ CarriesValidToken(req[p]) /\ HoldsActiveOffline(req[p])
       /\ res[p].err # "StorageError") =>
      ContextOfStoredOffline(p)

\* C10 amended: the same for an app that does not use online tokens, when
\* the token is in the authorization header, or is the id_token parameter of
\* a request with a valid host, embedded=1 and a shop that has the app
\* installed.
C10_ContextForStoredOfflineMode ==
  \A p \in Procs :
    (Done(p) /\ config.isEmbeddedApp /\ ~config.useOnlineTokens /\ AppRequest(p)
       /\ CarriesValidToken(req[p]) /\ HoldsActiveOffline(req[p])
       /\ (IsTruthy(req[p].authorization) \/ UrlParamsPass(req[p]))
       /\ res[p].err # "StorageError") =>
      ContextOfStoredOffline(p)

C10_Witness ==
  \E p \in Procs :
    /\ Done(p) /\ config.isEmbeddedApp /\ ~config.useOnlineTokens
    /\ req[p].authorization = Some(Jwt2) /\ HoldsActiveOffline(req[p])
    /\ res[p].type = "context" /\ Val(res[p].session).shop = Shop2

\* The calls of the session lookup that raised an error
LookupCalls == {"validateSessionToken", "loadSession", "getOfflineToken"}
LookupFailed(p) == {i \in Failed(p) : log[p][i].op \in LookupCalls}

\* C11 as claimed: an error that is not a Response, raised while
\* authenticateAdmin handles a request (a session token that fails
\* validation, a load from the session storage that fails), reaches the
\* caller as a 500 response and not as the error.
C11_ErrorsReachCallerAs500 ==
  \A p \in Procs :
    (Done(p) /\ LookupFailed(p) # {}) =>
      res[p].type = "response" /\ res[p].status = 500

\* C12: a Response thrown inside authenticateAndGetSessionContext goes
\* through cors exactly once and is what authenticateAdmin throws: the ending
\* step's Response with nothing but the CORS headers added, never a context
\* and never another response.
ThrownBy(p) ==
  CASE pc[p] = "handleRoutes" -> handleRoutes(config, req[p]).thrown
    [] pc[p] = "manageAccessToken" ->
         manageAccessToken(config, loc[p].sessionContext, loc[p].shop, req[p])
    [] pc[p] = "ensureSessionExists" ->
         ensureSessionExists(config, loc[p].sessionContext, loc[p].shop, req[p])
    [] pc[p] = "validateUrlParams" -> validateUrlParams(config, req[p])
    [] pc[p] = "ensureAppIsEmbeddedIfRequired" ->
         ensureAppIsEmbeddedIfRequired(config, req[p])
    [] pc[p] = "ensureSessionTokenSearchParamIfRequired" ->
         ensureSessionTokenSearchParamIfRequired(config, req[p])
    [] pc[p] = "redirectToShopifyOrAppRoot" ->
         Thrown(redirectToShopifyOrAppRoot(config, req[p]), <<>>)
    [] pc[p] \in {"beginAuth", "beginAuthOnline"} ->
         beginAuth(req[p], pc[p] = "beginAuthOnline", loc[p].shop)
    [] OTHER -> NoThrow
C12_Step(p) ==
  (pc[p] \notin {"idle", "done"} /\ pc'[p] = "done") =>
    /\ res'[p].type = "response" => res'[p].cors = 1
    /\ ThrownBy(p).out.type = "response" =>
         res'[p] = [ThrownBy(p).out EXCEPT !.cors = 1]
    /\ res'[p].type = "context" => ThrownBy(p) = NoThrow
C12_ResponseRethrownWithCors == [][\A p \in Procs : C12_Step(p)]_vars

C12_Witness ==
  \E p \in Procs :
    /\ Done(p) /\ res[p].cors = 1
    /\ res[p].status = 401 /\ res[p].target = "reauthorize"

\* C13 as claimed: a failed probe of the offline session ends the request
\* there: OAuth restarts for the shop after a 401 (the request awaits that
\* beginAuth and ends with its redirect), another HTTP error of the platform
\* ends with its status code, every other error ends with a 500, and no
\* embedding, bounce or session lookup step runs after it.
C13_FailedProbeEndsRequest ==
  \A p \in Procs :
    \A i \in Called(p, "testSession") :
      log[p][i].err # "" =>
        /\ Done(p) \/ (pc[p] = "beginAuth" /\ log[p][i].err = "Http401")
        /\ \A j \in DOMAIN log[p] : j > i => log[p][j].op = "beginAuth"
        /\ Done(p) =>
             /\ res[p].type = "response"
             /\ IF log[p][i].err = "Http401"
                  THEN res[p].status = 302 /\ res[p].target = "authorize"
                       /\ res[p].shop = log[p][i].shop
                ELSE IF log[p][i].err = "Http503" THEN res[p].status = 503
                ELSE res[p].status = 500

\* The request is in the branch without a session token header, and its shop
\* or host parameter is missing or not well-formed
BadUrlParams(p) ==
  /\ AppRequest(p) /\ IsFalsy(getSessionTokenHeader(req[p]))
  /\ IsNone(sanitizeShop(req[p].shop)) \/ IsNone(sanitizeHost(req[p].host))

LoginRedirect(out) ==
  out = [Response(302, LoginPath, NoShop, FALSE) EXCEPT !.cors = 1]

\* C14 as claimed: for every config, a request without a session token
\* header whose shop or host parameter is missing or malformed ends with the
\* redirect to the login path and loads no session.
C14_BadUrlParamsRedirectToLogin ==
  \A p \in Procs :
    (Done(p) /\ BadUrlParams(p)) =>
      /\ LoginRedirect(res[p])
      /\ \A i \in DOMAIN log[p] : log[p][i].op \notin LookupCalls

\* C14 amended: that holds for an embedded app, where the request ends in
\* validateUrlParams; for a non-embedded app validateUrlParams checks
\* nothing, and the request never ends with the redirect to the login path.
C14_EmbeddedBadUrlParamsRedirectToLogin ==
  \A p \in Procs :
    BadUrlParams(p) =>
      IF config.isEmbeddedApp
        THEN /\ pc[p] \in {"handleRoutes", "validateUrlParams", "done"}
             /\ \A i \in DOMAIN log[p] :
                  log[p][i].op \in {"handleRoutes", "validateUrlParams"}
             /\ Done(p) => LoginRedirect(res[p])
        ELSE res[p].target # LoginPath

C14_Witness ==
  \E p \in Procs :
    /\ Done(p) /\ BadUrlParams(p) /\ config.isEmbeddedApp
    /\ req[p].shop = Some(Shop1) /\ req[p].host = Some(InvalidHost)
    /\ LoginRedirect(res[p])

\* The paths handleRoutes answers, and the steps of the callback handler
RoutePaths == {PatchSessionTokenPath, ExitIframePath, AuthPath, CallbackPath}
CallbackSteps ==
  {"handleAuthCallbackRequest", "storeSession", "triggerAfterAuthHook",
   "redirectToShopifyOrAppRoot", "beginAuth", "beginAuthOnline"}

\* C15: the bot guard and the OPTIONS responder end a request before any
\* route handling or storage access; every other request handles the routes
\* first, once; and a request to the bounce, exit-iframe, OAuth begin or
\* OAuth callback path ends with a Response in the route handling, with no
\* session token validated, no session looked up and no context returned.
C15_StagesInOrder ==
  \A p \in Procs :
    LET r == req[p]
    IN  pc[p] # "idle" =>
          IF r.bot \/ r.method = "OPTIONS"
            THEN /\ Done(p) /\ log[p] = <<>>
                 /\ res[p] = IF r.bot THEN Val(rejectBotRequest(r))
                             ELSE Val(respondToOptionsRequest(r))
            ELSE /\ pc[p] # "handleRoutes" => Called(p, "handleRoutes") = {1}
                 /\ pc[p] = "handleRoutes" => log[p] = <<>>
                 /\ r.path \in RoutePaths =>
                      /\ pc[p] \in {"handleRoutes", "done"} \cup CallbackSteps
                      /\ pc[p] \in CallbackSteps =>
                           r.path = CallbackPath /\ IsSome(sanitizeShop(r.shop))
                      /\ \A i \in DOMAIN log[p] : log[p][i].op \notin LookupCalls
                      /\ Done(p) => res[p].type = "response"

C15_Witness ==
  \E p \in Procs :
    /\ Done(p) /\ req[p].path = CallbackPath /\ SuccessRedirect(res[p])
    /\ Called(p, "handleRoutes") = {1} /\ Called(p, "storeSession") # {}

\* C16: the returned context has sessionToken and redirect exactly for an
\* embedded app, and sessionToken is then the decoded payload of the token
\* this request carried and validated; a non-embedded app's context has
\* neither and validated no token; the ShopifyError of
\* getAuthenticatedSession is never raised.
C16_SessionTokenIffEmbedded ==
  \A p \in Procs :
    /\ res[p].err # "ShopifyError"
    /\ (Done(p) /\ res[p].type = "context") =>
         IF config.isEmbeddedApp
           THEN /\ res[p].shape = "embedded"
                /\ CarriesValidToken(req[p])
                /\ res[p].token = validateSessionToken(Val(CarriedToken(req[p])))
                /\ Cardinality(Called(p, "validateSessionToken")) = 1
           ELSE /\ res[p].shape = "nonEmbedded"
                /\ res[p].token = None
                /\ Called(p, "validateSessionToken") = {}

C16_Witness ==
  \E p \in Procs :
    /\ Done(p) /\ config.isEmbeddedApp /\ res[p].type = "context"
    /\ IsFalsy(req[p].authorization) /\ req[p].id_token = Some(Jwt1)
    /\ res[p].token = Some(JwtPayloadOf(Jwt1))

----------------------------------------------------------------------------
(* login (auth/login/login.ts)                                             *)
(*                                                                         *)
(* A string is the sequence of its pieces: a protocol prefix, a label of   *)
(* letters and digits, a hyphen, a dot, the platform's domain, or a        *)
(* character no domain name has.  The string is their concatenation.       *)

MaxShopLen == 4   \* pieces in a raw shop input

ShopPieces == {"http://", "https://", "shop", "-", ".", "myshopify.com", " "}

RECURSIVE StringsOfLen(_)
StringsOfLen(n) ==
  IF n = 0 THEN {<<>>}
  ELSE {<<c>> \o s : c \in ShopPieces, s \in StringsOfLen(n - 1)}
\* The raw shop inputs of at most len pieces
ShopInputs(len) == UNION {StringsOfLen(n) : n \in 0..len}

ApiKey == "testApiKey"

\* LoginErrorType
MissingShop == "MISSING_SHOP"
InvalidShop == "INVALID_SHOP"

\* A Request as login reads it: the method, the shop of the URL, and the form
\* data: whether request.formData() resolves, and the shop field it then has
LoginRequest(method, shop, readable, formShop) ==
  [method |-> method, shop |-> shop,
   form |-> [readable |-> readable, shop |-> formShop]]

ValidInput == <<"shop">>
InvalidInput == <<"shop", " ">>

\* A GET has no body: formData() rejects or gives an empty form, as the
\* runtime has it.  A POST carries a form.
LoginRequests(len) ==
  {LoginRequest("GET", shop, readable, None) :
     shop \in {None} \cup {Some(s) : s \in ShopInputs(len)}, readable \in BOOLEAN}
  \cup
  {LoginRequest("POST", shop, TRUE, formShop) :
     shop \in {None, Some(ValidInput), Some(InvalidInput)},
     formShop \in {None} \cup {Some(s) : s \in ShopInputs(len)}}

\* What login ends with: a returned errors object, a thrown redirect, or a
\* thrown error
LoginResult(type, status, location, shop, err) ==
  [type |-> type, status |-> status, location |-> location, shop |-> shop,
   err |-> err]
NoLoginResult == LoginResult("none", 0, <<>>, "", "")
LoginErrors(shop) == LoginResult("errors", 0, <<>>, shop, "")
LoginRedirectTo(location) == LoginResult("redirect", 302, location, "", "")
LoginRaised(err) == LoginResult("error", 0, <<>>, "", err)

\* a string that is not null and not empty
Truthy(m) == IsSome(m) /\ Val(m) # <<>>

\* line 21: shop.replace(/^https?:\/\//, '')
shopWithoutProtocol(shop) ==
  IF shop # <<>> /\ shop[1] \in {"http://", "https://"} THEN Tail(shop) ELSE shop

\* shop.indexOf('.') === -1
hasNoDot(shop) == \A i \in DOMAIN shop : shop[i] \notin {".", "myshopify.com"}

\* lines 22-25 with the suffix appended to every input
shopWithDomain_always(shop) ==
  shopWithoutProtocol(shop) \o <<".", "myshopify.com">>

\* lines 22-25
shopWithDomain(shop) ==
  IF hasNoDot(shop)
    THEN shopWithoutProtocol(shop) \o <<".", "myshopify.com">>
    ELSE shopWithoutProtocol(shop)

\* The platform's domain grammar: labels of letters, digits and hyphens that
\* start with a letter or digit, then the platform's domain
shopGrammar(s) ==
  /\ Len(s) >= 3
  /\ s[Len(s)] = "myshopify.com" /\ s[Len(s) - 1] = "."
  /\ s[1] = "shop"
  /\ \A i \in 1..(Len(s) - 2) : s[i] \in {"shop", "-"}

\* api.utils.sanitizeShop on a string: the string, or null
sanitizeShopString(s) == IF shopGrammar(s) THEN Some(s) ELSE None

\* lines 21-26: the sanitized shop of a raw input
normalizeShop(shop) == sanitizeShopString(shopWithDomain(shop))

\* line 33: sanitizedShop.split('.')[0]
RECURSIVE shopWithoutDot(_)
shopWithoutDot(s) ==
  IF s = <<>> \/ s[1] = "." THEN <<>>
  ELSE IF s[1] = "myshopify.com" THEN <<"myshopify">>
  ELSE <<s[1]>> \o shopWithoutDot(Tail(s))

\* line 34
redirectUrl(cfg, sanitizedShop) ==
  <<"https://", "admin.shopify.com", "/store/">> \o shopWithoutDot(sanitizedShop)
    \o <<"/apps/", ApiKey>>

\* lines 12-14: the shop of the form when it has one, else of the URL
loginShop(r) == IF Truthy(r.form.shop) THEN r.form.shop ELSE r.shop

\* lines 8-41
login(cfg, r) ==
  IF ~r.form.readable THEN LoginRaised("TypeError")
  ELSE LET shop == loginShop(r)
       IN  IF ~Truthy(shop) THEN LoginErrors(MissingShop)
           ELSE LET sanitizedShop == normalizeShop(Val(shop))
                IN  IF IsNone(sanitizedShop) THEN LoginErrors(InvalidShop)
                    ELSE LoginRedirectTo(redirectUrl(cfg, Val(sanitizedShop)))

\* login handles the request of p; line 10 reads the form data of any request
Login(p) ==
  /\ pc[p] = "login"
  /\ pc' = [pc EXCEPT ![p] = "done"]
  /\ log' = [log EXCEPT ![p] = @ \o <<Ev("formData", NoShop, None, FALSE, None)>>]
  /\ res' = [res EXCEPT ![p] = login(config, req[p])]
  /\ UNCHANGED <<config, store, past, issued, req, loc>>

LoginInit ==
  /\ config \in {c \in Configs : ~c.useOnlineTokens /\ ~c.afterAuth}
  /\ store = <<>>
  /\ past = {}
  /\ issued = 0
  /\ pc = [p \in Procs |-> IF p = 1 THEN "login" ELSE "idle"]
  /\ req \in {[p \in Procs |-> IF p = 1 THEN r ELSE NoRequest] : r \in LoginRequests(MaxShopLen)}
  /\ loc = [p \in Procs |-> NoLocals]
  /\ log = [p \in Procs |-> <<>>]
  /\ res = [p \in Procs |-> NoLoginResult]

LoginNext == Login(1)

LoginSpec == LoginInit /\ [][LoginNext]_vars

----------------------------------------------------------------------------
(* Properties of login *)

LoginDone(p) == pc[p] = "done"

\* The shop login works on is there and normalizes to a valid shop
LoginShopValid(r) ==
  Truthy(loginShop(r)) /\ IsSome(normalizeShop(Val(loginShop(r))))
LoginShopInvalid(r) ==
  Truthy(loginShop(r)) /\ IsNone(normalizeShop(Val(loginShop(r))))

\* C17 as claimed: for a request whose shop is valid after normalization
\* (and whose form data can be read), login ends with a 302 redirect to the
\* app's OAuth begin path with the normalized shop, /auth?shop=<shop>.
C17_LoginRedirectsToAuthPath ==
  \A p \in Procs :
    (LoginDone(p) /\ req[p].form.readable /\ LoginShopValid(req[p])) =>
      res[p] = LoginRedirectTo(<<AuthPath, "?shop=">>
                                 \o Val(normalizeShop(Val(loginShop(req[p])))))

\* C18 as claimed: login returns bad shop input and never throws for it: a
\* POST with no shop in the form and none in the URL returns
\* {shop: MissingShop}, and every request whose shop fails sanitization
\* returns {shop: InvalidShop}.
C18_BadShopIsReturned ==
  \A p \in Procs :
    LoginDone(p) =>
      /\ (req[p].method = "POST" /\ ~Truthy(req[p].form.shop) /\ ~Truthy(req[p].shop)) =>
           res[p] = LoginErrors(MissingShop)
      /\ LoginShopInvalid(req[p]) => res[p] = LoginErrors(InvalidShop)

\* C19 as claimed: a GET without a shop parameter gets an empty errors
\* object, and login reads the form data of no GET request.
C19_GetReturnsEmptyErrors ==
  \A p \in Procs :
    (LoginDone(p) /\ req[p].method = "GET") =>
      /\ Called(p, "formData") = {}
      /\ ~Truthy(req[p].shop) => res[p] = LoginErrors("")

\* C20: normalizing a shop (protocol stripped, the platform's domain appended
\* to an input without a dot, then sanitized) is idempotent: a normalized
\* shop normalizes to itself; and an input that fails the grammar makes
\* login return the invalid signal, not throw.
C20_NormalizationIdempotent ==
  \A p \in Procs :
    (LoginDone(p) /\ Truthy(loginShop(req[p]))) =>
      LET s == Val(loginShop(req[p]))
          n == normalizeShop(s)
      IN  /\ IsSome(n) => normalizeShop(Val(n)) = n
          /\ IsSome(n) => shopGrammar(Val(n))
          /\ req[p].form.readable =>
               /\ IsNone(n) <=> res[p] = LoginErrors(InvalidShop)
               /\ IsSome(n) <=> res[p].type = "redirect"

C20_Witness ==
  \E p \in Procs :
    /\ LoginDone(p) /\ req[p].form.readable
    /\ loginShop(req[p]) = Some(<<"https://", "shop", "-", "shop">>)
    /\ normalizeShop(<<"https://", "shop", "-", "shop">>)
         = Some(<<"shop", "-", "shop", ".", "myshopify.com">>)
    /\ res[p].type = "redirect"

----------------------------------------------------------------------------
(* An OAuth flow across requests: the user agent follows the redirects the *)
(* app answers with, and the platform grants the access mode the app asked *)
(* for.  log[p] keeps the calls of the whole flow.                         *)

MaxCallbacks == 3   \* callback requests in one flow

\* The access mode of the last authorize request of the flow
RequestedOnline(p) ==
  LET b == Called(p, "beginAuth")
  IN  log[p][CHOOSE i \in b : \A j \in b : j <= i].isOnline

\* The flow starts with a request to the OAuth begin path for a shop
FlowBegin(p) ==
  \E r \in {q \in OAuthRequests : q.path = AuthPath /\ IsSome(sanitizeShop(q.shop))} :
    AuthenticateAdmin(p, r)

\* The next request of the user agent reaches handleRoutes
FlowRequest(p, r) ==
  /\ req' = [req EXCEPT ![p] = r]
  /\ pc' = [pc EXCEPT ![p] = "handleRoutes"]
  /\ res' = [res EXCEPT ![p] = NoOutcome]
  /\ loc' = [loc EXCEPT ![p] = NoLocals]
  /\ UNCHANGED <<config, store, past, issued, log>>

\* The user agent follows the redirect to the exit-iframe path, inside the
\* iframe, with the query of the redirect
FollowExitIframe(p) ==
  /\ pc[p] = "done" /\ res[p].type = "response" /\ res[p].status = 302
  /\ res[p].target = ExitIframePath
  /\ \E r \in {RequestWith(FALSE, "GET", ExitIframePath,
                            TextOf(searchParamsGet(res[p].query, "shop")),
                            TextOf(searchParamsGet(res[p].query, "host")),
                            None, None, None, "iframe", None, res[p].query)} :
       FlowRequest(p, r)

\* The page of the exit-iframe route sends the top window to its destination
FollowAppBridge(p) ==
  /\ pc[p] = "done" /\ res[p].type = "response" /\ res[p].status = 200
  /\ res[p].target = "appBridge" /\ IsSome(res[p].redirectTo)
  /\ \E url \in {DestinationUrl(Val(res[p].redirectTo))} :
       \E r \in {RequestWith(FALSE, "GET", url.pathname,
                              TextOf(searchParamsGet(url.search, "shop")),
                              TextOf(searchParamsGet(url.search, "host")),
                              None, None, None, "document", None, url.search)} :
         FlowRequest(p, r)

\* The platform's authorize page sends the user agent to the callback path
FollowAuthorize(p) ==
  /\ pc[p] = "done" /\ res[p].type = "response" /\ res[p].target = "authorize"
  /\ Cardinality(Called(p, "callback")) < MaxCallbacks
  /\ \E r \in {Request(FALSE, "GET", CallbackPath, Some(res[p].shop),
                        Some(ValidHost), None, None, None, "document", None)} :
       FlowRequest(p, r)

\* api.auth.callback of a platform that returns the session asked for
FlowExchange(p) ==
  /\ HandleAuthCallbackRequest(p)
  /\ pc'[p] = "storeSession" => Val(loc'[p].session).isOnline = RequestedOnline(p)

FlowInit == Init /\ config.useOnlineTokens

FlowNext ==
  \/ FlowBegin(1)
  \/ FollowExitIframe(1)
  \/ FollowAppBridge(1)
  \/ FollowAuthorize(1)
  \/ HandleRoutes(1)
  \/ FlowExchange(1)
  \/ StoreSession(1)
  \/ TriggerAfterAuthHook(1)
  \/ RedirectToShopifyOrAppRoot(1)
  \/ BeginAuth(1)

FlowSpec == FlowInit /\ [][FlowNext]_vars

\* C21: with useOnlineTokens and a platform that returns the session asked
\* for, a flow in which no call fails makes at most two callback requests
\* and two authorize requests; its second callback does not begin OAuth
\* again; and when it ends with the success redirect it made exactly two
\* callbacks (offline, then online), called the hook once (if one is
\* registered) for the online session after both were stored, and the store
\* holds both records.
C21_FlowCompletesInTwoCallbacks ==
  \A p \in Procs :
    (pc[p] # "idle" /\ Failed(p) = {}) =>
      LET cbs == Called(p, "callback")
          stores == Called(p, "storeSession")
          hooks == Called(p, "afterAuth")
          shop == Val(req[p].shop)
      IN  /\ Cardinality(cbs) <= 2
          /\ Cardinality(Called(p, "beginAuth")) <= 2
          /\ (Done(p) /\ Cardinality(cbs) = 2) =>
               /\ res[p].type = "response" /\ res[p].target \notin {"authorize", ExitIframePath}
               /\ \A i \in Called(p, "beginAuth") : \E j \in cbs : i < j
          /\ \A i \in hooks : log[p][i].isOnline /\ \A j \in stores : j < i
          /\ Cardinality(hooks) <= 1
          /\ (Done(p) /\ SuccessRedirect(res[p])) =>
               /\ Cardinality(cbs) = 2 /\ Cardinality(stores) = 2
               /\ Cardinality(hooks) = IF config.afterAuth THEN 1 ELSE 0
               /\ \E i, j \in stores :
                    /\ i < j
                    /\ ~log[p][i].isOnline /\ log[p][j].isOnline
                    /\ getOfflineId(shop) \in DOMAIN store
                    /\ Some(store[getOfflineId(shop)]) = log[p][i].session
                    /\ getJwtSessionId(shop, UserId) \in DOMAIN store
                    /\ Some(store[getJwtSessionId(shop, UserId)]) = log[p][j].session
                    /\ \A h \in hooks : log[p][h].session = log[p][j].session

C21_Witness ==
  \E p \in Procs :
    /\ Done(p) /\ SuccessRedirect(res[p]) /\ Failed(p) = {}
    /\ config.afterAuth /\ config.isEmbeddedApp
    /\ Cardinality(Called(p, "callback")) = 2
    /\ Cardinality(Called(p, "afterAuth")) = 1
    /\ Cardinality(Called(p, "handleRoutes")) = 5

----------------------------------------------------------------------------
\* A step of process p that is the storeSession of a callback request whose
\* exchange succeeded, writing the exchanged session whole under its id
CallbackWrite(p) ==
  /\ pc[p] = "storeSession"
  /\ req[p].path = CallbackPath /\ CallbackRequest(p)
  /\ Called(p, "callback") # {} /\ Failed(p) = {}
  /\ Called(p, "storeSession") = {}
  /\ store' = Stored(store, Val(loc[p].session))
  /\ Val(loc[p].session).id \in DOMAIN store'
  /\ store'[Val(loc[p].session).id] = Val(loc[p].session)

\* C22: every step that changes the store is the storeSession of a callback
\* request after its successful exchange and the first write of that
\* request; no step removes a record or changes a record other than to the
\* whole exchanged session; no request calls storeSession twice.
C22_StoreWrittenOnlyByCallback ==
  [][/\ (store' # store) => \E p \in Procs : CallbackWrite(p)
     /\ DOMAIN store \subseteq DOMAIN store'
     /\ \A p \in Procs :
          Cardinality({i \in DOMAIN log'[p] : log'[p][i].op = "storeSession"}) <= 1
    ]_vars

C22_Witness ==
  \E p \in Procs :
    /\ Done(p) /\ CallbackRequest(p) /\ Failed(p) = {}
    /\ Called(p, "storeSession") # {}
    /\ \E i \in Called(p, "storeSession") :
         /\ Val(log[p][i].session).id \in DOMAIN store
         /\ store[Val(log[p][i].session).id] = Val(log[p][i].session)
         /\ Val(log[p][i].session).accessToken = MaxExchanges

----------------------------------------------------------------------------
(* Two callback requests for the same shop handled at the same time: each  *)
(* request is one process, and the processes share only the store.         *)

ConcReceive(p) ==
  \E r \in {q \in OAuthRequests : q.path = CallbackPath /\ q.shop = Some(Shop1)} :
    AuthenticateAdmin(p, r)

ConcNext ==
  \E p \in Procs :
    \/ ConcReceive(p)
    \/ HandleRoutes(p)
    \/ HandleAuthCallbackRequest(p)
    \/ StoreSession(p)
    \/ TriggerAfterAuthHook(p)
    \/ RedirectToShopifyOrAppRoot(p)
    \/ BeginAuth(p)

ConcSpec == Init /\ [][ConcNext]_vars

\* The step in which the storeSession of process p completes with success
StoreCompletes(p) ==
  /\ pc[p] = "storeSession" /\ pc'[p] # "storeSession"
  /\ \A i \in DOMAIN log'[p] : log'[p][i].err = ""

\* C23: in every interleaving of two callbacks, a storeSession that
\* completes leaves under its id the whole session its own request
\* exchanged and changes no other record, and the store changes in no other
\* step, so the store ends with the record of the last storeSession to
\* complete; every record of the store is either the one held before the
\* step or the whole session of one exchange; the two requests hold
\* different sessions, and each call of the hook gets the session of the
\* request that makes it.
C23_LastStoreWinsWhole ==
  [][/\ \A p \in Procs :
          /\ StoreCompletes(p) =>
               LET s == Val(loc[p].session)
               IN  /\ s.id \in DOMAIN store' /\ store'[s.id] = s
                   /\ \A i \in DOMAIN store' \ {s.id} :
                        i \in DOMAIN store /\ store'[i] = store[i]
          /\ \A i \in DOMAIN log'[p] \ DOMAIN log[p] :
               log'[p][i].op = "afterAuth" =>
                 /\ log'[p][i].session = loc[p].session
                 /\ \E j \in DOMAIN log[p] :
                      /\ log[p][j].op = "storeSession"
                      /\ log[p][j].session = loc[p].session
          /\ \A q \in Procs \ {p} :
               (IsSome(loc'[p].session) /\ IsSome(loc'[q].session)) =>
                 Val(loc'[p].session).accessToken # Val(loc'[q].session).accessToken
     /\ (store' # store) => \E p \in Procs : StoreCompletes(p)
     /\ \A i \in DOMAIN store' :
          \/ i \in DOMAIN store /\ store'[i] = store[i]
          \/ \E q \in Procs : pc[q] = "storeSession" /\ Some(store'[i]) = loc[q].session
    ]_vars

\* Both callbacks stored under one id and called the hook; the store holds
\* the session of the request that exchanged first and stored last, and the
\* other request's hook got a session that is no longer the stored one
C23_Witness ==
  \E p, q \in Procs :
    /\ p # q /\ Done(p) /\ Done(q) /\ Failed(p) = {} /\ Failed(q) = {}
    /\ Called(p, "afterAuth") # {} /\ Called(q, "afterAuth") # {}
    /\ Val(loc[p].session).id = Val(loc[q].session).id
    /\ Val(loc[p].session).accessToken < Val(loc[q].session).accessToken
    /\ store[Val(loc[p].session).id] = Val(loc[p].session)
    /\ \E i \in Called(q, "afterAuth") :
         log[q][i].session # Some(store[Val(loc[q].session).id])

----------------------------------------------------------------------------
(* The branch without a session token header: requests to an app route    *)
(* with the token, if any, in the URL, against a store that earlier OAuth  *)
(* flows have filled.                                                      *)

\* The sessions earlier flows may have stored
UrlSessions(cfg) ==
  {NewSession(Shop1, FALSE, cfg.scopes, 1), NewSession(Shop1, TRUE, cfg.scopes, 2),
   NewSession(Shop2, FALSE, cfg.scopes, 1)}

\* storeSession of each session of S
StoredAll(st, S) ==
  [i \in DOMAIN st \cup {s.id : s \in S} |->
     IF \E s \in S : s.id = i THEN CHOOSE s \in S : s.id = i ELSE st[i]]

UrlStores(cfg) == {StoredAll(st, S) : st \in InitialStores, S \in SUBSET UrlSessions(cfg)}

UrlInit ==
  /\ config \in Configs
  /\ store \in UrlStores(config)
  /\ past = {}
  /\ issued = 0
  /\ pc = [p \in Procs |-> "idle"]
  /\ req = [p \in Procs |-> NoRequest]
  /\ loc = [p \in Procs |-> NoLocals]
  /\ log = [p \in Procs |-> <<>>]
  /\ res = [p \in Procs |-> NoOutcome]

UrlReceive(p) ==
  \E r \in UrlRequests(config) \cup EmptyParamRequests(config) : AuthenticateAdmin(p, r)

UrlNext ==
  \/ Expire
  \/ UrlReceive(1)
  \/ HandleRoutes(1)
  \/ ValidateUrlParams(1)
  \/ EnsureInstalledOnShop(1)
  \/ TestSession(1)
  \/ BeginAuth(1)
  \/ EnsureAppIsEmbeddedIfRequired(1)
  \/ EnsureSessionTokenSearchParamIfRequired(1)
  \/ GetAuthenticatedSession(1)
  \/ LoadSession(1)
  \/ EnsureSessionExists(1)
  \/ Reset(1)

UrlSpec == UrlInit /\ [][UrlNext]_vars

\* The request is in the branch without a session token header and has
\* loaded the offline session of its shop parameter
InstalledCheckDone(p) ==
  /\ AppRequest(p) /\ IsFalsy(getSessionTokenHeader(req[p]))
  /\ IsTruthy(req[p].shop)
  /\ \E i \in Called(p, "getOfflineToken") : log[p][i].err = ""

\* The installed check has found no session and the request is suspended at
\* the beginAuth for an offline token of its shop, which line 203 awaits
AwaitsOAuthStart(p) ==
  /\ pc[p] = "beginAuth" /\ loc[p].shop = Val(req[p].shop)
  /\ req[p].embedded # Some("1") /\ Called(p, "beginAuth") = {}

\* The request awaits that beginAuth, or it ended at the installed check with
\* an OAuth start for its
\* shop: the exit-iframe redirect and no beginAuth when the URL has
\* embedded=1, else the authorize redirect of one beginAuth for an offline
\* token; the probe, the embedding check, the session token parameter check
\* and session resolution were not run
EndsWithOAuthStart(p) ==
  /\ Done(p) \/ AwaitsOAuthStart(p)
  /\ Done(p) =>
       /\ res[p].type = "response" /\ res[p].status = 302
       /\ res[p].shop = Val(req[p].shop)
       /\ IF req[p].embedded = Some("1")
            THEN res[p].target = ExitIframePath /\ Called(p, "beginAuth") = {}
            ELSE /\ res[p].target = "authorize" /\ ~res[p].isOnline
                 /\ Cardinality(Called(p, "beginAuth")) = 1
                 /\ \A i \in Called(p, "beginAuth") : ~log[p][i].isOnline
  /\ \A i \in DOMAIN log[p] :
       log[p][i].op \in {"handleRoutes", "validateUrlParams",
                         "ensureInstalledOnShop", "getOfflineToken", "beginAuth"}

\* C24 as stated: every request of the branch without a session token
\* header whose shop has no offline session in the store ends with an OAuth
\* start for the shop and goes no further.
C24_NoOfflineSessionStartsOAuth ==
  \A p \in Procs :
    (Done(p) /\ AppRequest(p) /\ IsFalsy(getSessionTokenHeader(req[p]))
       /\ IsTruthy(req[p].shop)
       /\ getOfflineId(Val(req[p].shop)) \notin DOMAIN store) =>
      EndsWithOAuthStart(p)

\* C24: a request of the branch without a session token header that passed
\* validateUrlParams, whose load of the offline session did not fail and
\* whose shop has no offline session in the store ends at the installed
\* check with an OAuth start for the shop: the exit-iframe redirect and no
\* beginAuth when the URL has embedded=1, else the authorize redirect of one
\* beginAuth for an offline token; the probe, the embedding check, the
\* session token parameter check and session resolution are not run.
C24_NotInstalledStartsOAuth ==
  \A p \in Procs :
    (InstalledCheckDone(p) /\ getOfflineId(Val(req[p].shop)) \notin DOMAIN store) =>
      EndsWithOAuthStart(p)

C24_Witness ==
  \E p \in Procs :
    /\ InstalledCheckDone(p) /\ getOfflineId(Val(req[p].shop)) \notin DOMAIN store
    /\ req[p].embedded = Some("1") /\ config.isEmbeddedApp
    /\ res[p].target = ExitIframePath
    /\ store # <<>>

----------------------------------------------------------------------------
\* The place of a logged call in the order of lines 131-136; beginAuth is the
\* OAuth start a check ends with and has no place of its own
StageOf(op) ==
  CASE op = "handleRoutes" -> 0
    [] op = "validateUrlParams" -> 1
    [] op \in {"ensureInstalledOnShop", "getOfflineToken"} -> 2
    [] op = "testSession" -> 3
    [] op = "ensureAppIsEmbeddedIfRequired" -> 4
    [] op = "ensureSessionTokenSearchParamIfRequired" -> 5
    [] OTHER -> 6

\* An embedded app's request in the branch without a session token header
EmbeddedUrlRequest(p) ==
  /\ config.isEmbeddedApp
  /\ AppRequest(p) /\ IsFalsy(getSessionTokenHeader(req[p]))

\* C25: for an embedded app's request without a session token header the
\* checks are logged in the order URL-parameter validation, installed check,
\* probe, embedding check, session token parameter check, session
\* resolution; a check that fails ends the request, with nothing after it
\* but the OAuth start it asks for; and an installed request with neither
\* embedded=1 nor id_token that ends at the embedding check is redirected to
\* the platform's embedded app URL and never to the bounce page.
C25_FirstFailingCheckDecides ==
  \A p \in Procs :
    EmbeddedUrlRequest(p) =>
      /\ \A i, j \in DOMAIN log[p] :
           (i < j /\ log[p][i].op # "beginAuth" /\ log[p][j].op # "beginAuth") =>
             StageOf(log[p][i].op) <= StageOf(log[p][j].op)
      /\ \A i \in Failed(p) :
           /\ Done(p) \/ (pc[p] = "beginAuth" /\ log[p][i].err = "Http401")
           /\ \A j \in DOMAIN log[p] : j > i => log[p][j].op = "beginAuth"
      /\ (Done(p) /\ req[p].embedded # Some("1") /\ IsFalsy(req[p].id_token)
            /\ Called(p, "ensureAppIsEmbeddedIfRequired") # {}) =>
           /\ res[p].type = "response" /\ res[p].status = 302
           /\ res[p].target = "shopifyAdmin"
           /\ Called(p, "ensureSessionTokenSearchParamIfRequired") = {}

----------------------------------------------------------------------------
(* The bounce redirect for requests with any query: parameters in any      *)
(* order, repeated, and with parameters the handlers do not read.          *)

MaxParams == 4   \* parameters in the query of a request

BounceParams ==
  {Param("shop", <<Shop1>>), Param("host", <<ValidHost>>), Param("embedded", <<"1">>),
   Param("id_token", <<Jwt1>>), Param("id_token", <<"">>),
   Param("shopify-reload", <<"/old">>), Param("page", <<"2">>)}

BounceSearches == UNION {[1..n -> BounceParams] : n \in 0..MaxParams}

\* A GET of an app route with the query, without a session token header
BounceRequest(search) ==
  RequestWith(FALSE, "GET", AppPath, TextOf(searchParamsGet(search, "shop")),
              TextOf(searchParamsGet(search, "host")),
              TextOf(searchParamsGet(search, "embedded")), None,
              TextOf(searchParamsGet(search, "id_token")), "document", None, search)

BounceRequests == {BounceRequest(s) : s \in BounceSearches}

BounceReceive(p) == \E r \in BounceRequests : AuthenticateAdmin(p, r)

\* An embedded app that the shop has installed.  No handler of this branch
\* reads config.hooks.afterAuth, and none before the bounce redirect reads
\* config.useOnlineTokens
BounceInit ==
  /\ config \in {c \in Configs : c.isEmbeddedApp /\ ~c.afterAuth /\ ~c.useOnlineTokens}
  /\ store = StoredAll(<<>>, {NewSession(Shop1, FALSE, config.scopes, 1)})
  /\ past = {}
  /\ issued = 0
  /\ pc = [p \in Procs |-> "idle"]
  /\ req = [p \in Procs |-> NoRequest]
  /\ loc = [p \in Procs |-> NoLocals]
  /\ log = [p \in Procs |-> <<>>]
  /\ res = [p \in Procs |-> NoOutcome]

BounceNext ==
  \/ BounceReceive(1)
  \/ HandleRoutes(1)
  \/ ValidateUrlParams(1)
  \/ EnsureInstalledOnShop(1)
  \/ TestSession(1)
  \/ BeginAuth(1)
  \/ EnsureAppIsEmbeddedIfRequired(1)
  \/ EnsureSessionTokenSearchParamIfRequired(1)
  \/ GetAuthenticatedSession(1)
  \/ LoadSession(1)
  \/ EnsureSessionExists(1)

BounceSpec == BounceInit /\ [][BounceNext]_vars

\* An embedded app's installed request with embedded=1, no id_token (or an
\* empty one) and no session token header has ended
BounceCase(p) ==
  /\ EmbeddedUrlRequest(p) /\ Done(p)
  /\ InstalledCheckDone(p) /\ getOfflineId(Val(req[p].shop)) \in DOMAIN store
  /\ req[p].embedded = Some("1") /\ IsFalsy(req[p].id_token)

\* The reload target: the app URL, the path and the query string of the request
ReloadOf(r) == Param("shopify-reload", <<AppUrl, r.path>> \o SearchString(UrlOf(r).search))

WithoutReload(search) == SelectSeq(search, LAMBDA x : x.key # "shopify-reload")

\* the sequence without its i-th element
WithoutAt(s, i) == SubSeq(s, 1, i - 1) \o SubSeq(s, i + 1, Len(s))

\* C26 as stated: the request ends with a redirect to the bounce path whose
\* query is the original query, every parameter kept, with the reload
\* target added to it.
C26_BounceKeepsEveryParam ==
  \A p \in Procs :
    BounceCase(p) =>
      /\ res[p].type = "response" /\ res[p].status = 302
      /\ res[p].target = PatchSessionTokenPath
      /\ \E i \in DOMAIN res[p].query :
           /\ res[p].query[i] = ReloadOf(req[p])
           /\ WithoutAt(res[p].query, i) = UrlOf(req[p]).search

\* C26: the request ends with a redirect to the bounce path whose query
\* keeps, in order, every original parameter other than shopify-reload and
\* has exactly one shopify-reload, set to the app URL followed by the
\* original path and the original query string, in place of any the request
\* carried.
C26_BounceSetsReload ==
  \A p \in Procs :
    BounceCase(p) =>
      /\ res[p].type = "response" /\ res[p].status = 302
      /\ res[p].target = PatchSessionTokenPath
      /\ WithoutReload(res[p].query) = WithoutReload(UrlOf(req[p]).search)
      /\ \E i \in DOMAIN res[p].query :
           /\ res[p].query[i] = ReloadOf(req[p])
           /\ \A j \in DOMAIN res[p].query :
                res[p].query[j].key = "shopify-reload" => j = i

C26_Witness ==
  \E p \in Procs :
    /\ BounceCase(p)
    /\ Len(UrlOf(req[p]).search) = MaxParams
    /\ \E i \in DOMAIN UrlOf(req[p]).search : UrlOf(req[p]).search[i].key = "shopify-reload"
    /\ UrlOf(req[p]).search[1].key = "embedded"
    /\ Len(res[p].query) = MaxParams

----------------------------------------------------------------------------
(* The callback request against a platform client whose api.auth.begin may *)
(* reject.  beginAuth awaits it, so the error is raised where beginAuth is *)
(* called: inside the try at line 130, or inside the catch at line 141,    *)
(* where oauthCallbackError restarts the begin for CookieNotFound.         *)

\* What api.auth.begin does: it builds the authorize redirect, or rejects
BeginOutcomes == {"ok", "Error"}

beginAuthOrReject(r, isOnline, shop, o) ==
  IF o = "ok" THEN beginAuth(r, isOnline, shop)
  ELSE Thrown(Raised(o), <<Call("beginAuth", shop, None, isOnline, None, o)>>)

\* The awaited beginAuth completes, or rejects; lines 138-142: the catch
\* takes what the begin of line 132 raises, and nothing catches what the
\* begin restarted by oauthCallbackError raises
BeginAuthOrReject(p) ==
  /\ pc[p] \in {"beginAuth", "beginAuthOnline"}
  /\ \E o \in BeginOutcomes :
       LET b == beginAuthOrReject(req[p], pc[p] = "beginAuthOnline",
                                  loc[p].shop, o)
       IN  Throw(p, IF pc[p] = "beginAuthOnline"
                      THEN callbackCatch(config, b, req[p], loc[p].shop)
                      ELSE b)
  /\ UNCHANGED <<config, store, past, issued, req, loc>>

RestartReceive(p) ==
  \E r \in {q \in OAuthRequests : q.path = CallbackPath} : AuthenticateAdmin(p, r)

RestartNext ==
  \/ RestartReceive(1)
  \/ HandleRoutes(1)
  \/ HandleAuthCallbackRequest(1)
  \/ StoreSession(1)
  \/ TriggerAfterAuthHook(1)
  \/ RedirectToShopifyOrAppRoot(1)
  \/ BeginAuthOrReject(1)
  \/ Reset(1)

RestartSpec == Init /\ [][RestartNext]_vars

====
